---------------------------- MODULE Spec2Model ----------------------------
(***************************************************************************)
(* yasbit: the block-synchronisation engine.                               *)
(*                                                                         *)
(* Coordinator (src/src/lib.rs), peer entries (NodeHandle, src/src/node.rs)*)
(* and Validator (src/src/valider.rs), connected by the mpsc channels the  *)
(* code creates.  Every thread is a process whose steps run from one       *)
(* channel receive to the next; a Rust panic (unwrap on None / on a closed *)
(* channel) ends the thread that raised it.                                *)
(***************************************************************************)
EXTENDS Naturals, Integers, Sequences, FiniteSets, TLC

(***************************************************************************)
(* Bounds of the model.                                                    *)
(***************************************************************************)
\* number of peer addresses the DNS seed returned (at most PEERS_NUMBER)
NPeers == 2
\* length of the header chain the remote peers serve
NHdr == 2
\* longest headers list a remote peer sends in one headers message
MaxList == 2
\* a Timeout is not injected once download_queue is this long
MaxQueue == 2
\* sessions spawned to replace a peer, over all peer entries
MaxRestarts == 1
\* capacity of the Validator's channel when the Validator is run on its own
MaxVq == 2
\* hashes sent in Wait messages when the Validator is run on its own
MaxWaited == 4
\* Timeout messages the Validator sends to the Coordinator
MaxTimeouts == 2
\* messages and commands a session receives
MaxInbox == 3
\* length of the headers list of a bulk announcement (one more than a peer
\* may be asked for at once)
BulkLen == 17
\* the longest block locator and inventory of a message
MaxItems == 2
\* the number of frames of a stream
MaxFrames == 2
\* the number of key pairs, and of public keys and of signatures of a
\* multisig
MaxKeys == 2
\* the number of leaves of a Merkle tree, and of distinct leaves
MaxLeaves == 4
\* the number of calls of store_block
MaxStores == 3
MaxSig == 5
MaxPush == 2

(***************************************************************************)
(* Program constants.                                                      *)
(***************************************************************************)
PEERS_NUMBER == 8
MAX_HEADERS == 2000
MAX_DOWNLOADING_BLOCKS == 16

\* Option<T>: None is the empty sequence, Some(x) is <<x>>
None == <<>>
Some(x) == <<x>>
unwrap(o) == o[1]

NodeIds == 0 .. (NPeers - 1)
HdrIds == 1 .. NHdr

\* Hashable::hash of a header / of a block: the byte-reversed double SHA-256
\* of the 80 header bytes, kept symbolic (injective in the header).
hash32(bytes) == <<"sha256d", bytes>>
reverse(h) == <<"rev", h>>
BlockHeader_hash(header) == reverse(hash32(header))
\* a block hash that does not look at the block
Block_hash_of_first(block) == reverse(hash32(1))
Block_hash(block) == reverse(hash32(block.header))
BlockHeader_validate(header) == TRUE

Blocks == [header : HdrIds]
Hashes == {BlockHeader_hash(k) : k \in HdrIds}
genesis_hash == reverse(hash32(0))
ZeroHash == <<"zero32">>

\* all sequences over S of length at most n
RECURSIVE SeqsUpTo(_, _)
SeqsUpTo(S, n) ==
    IF n = 0 THEN {<<>>}
    ELSE LET shorter == SeqsUpTo(S, n - 1)
         IN  shorter \cup {Append(s, x) : s \in {t \in shorter : Len(t) = n - 1}, x \in S}
\* the addresses of an addr message
AddrLists == {{}, {"addr1"}}

SeqToSet(s) == {s[i] : i \in 1 .. Len(s)}
Min(a, b) == IF a < b THEN a ELSE b
Contains(s, x) == \E i \in 1 .. Len(s) : s[i] = x

VARIABLES
    nodes,          \* GlobalState.nodes: sequence of NodeHandle, index = id + 1
    known_active_nodes,
    sync_node_id,
    download_queue,
    cpc,            \* Coordinator thread: "run" or "dead" (panicked)
    vpc,            \* Validator thread: "first", "wait" or "dead" (panicked)
    vstarted,       \* a first message has been written on the Validator's channel
    ev,             \* the kind of message the Coordinator handled last
    out,            \* what the Coordinator sent while handling it, in order
    announced,      \* hashes pushed on download_queue from a Headers event
    waited,         \* hashes sent to the Validator in Wait messages
    received,       \* hashes whose block has reached the Coordinator
    requested,      \* per peer id: hashes sent in getdata, block not yet back
    vq,             \* the Validator's channel (valider_receiver)
    waiting,
    available,
    next,
    timers,         \* sleeping timeout threads, per hash
    stored,         \* the Store messages the Validator has emitted, in order
    waitlog,        \* the hashes of the Wait messages received, in order
    upstream,       \* the Timeout messages the Validator sent to the Coordinator
    session,        \* per peer id: the session thread (Node) and what it sent
    tcp,            \* reader: what the remote wrote and is not read yet
    frames,         \* reader: the frames the remote wrote, in order
    consumed,       \* reader: the number of bytes read so far
    reader_bytes,   \* reader: the buffer of the frame being assembled
    remaining_bytes,
    t_rc,           \* reader: the messages sent on to the session, in order
    input,          \* the argument a function of the wire format is applied to
    output,         \* and its result
    blocks,         \* Storage.blocks: the index, block hash -> BlockIndexRecord
    current_file    \* Storage.current_file, with the content of the file

cvars == <<nodes, known_active_nodes, sync_node_id, download_queue, cpc>>
hvars == <<ev, out, announced, waited, received, requested, vstarted>>
vvars == <<vq, waiting, available, next, timers, stored, waitlog, upstream>>
rvars == <<tcp, frames, consumed, reader_bytes, remaining_bytes, t_rc>>
svars == <<blocks, current_file>>
wvars == <<rvars, input, output, svars>>
vars == <<nodes, known_active_nodes, sync_node_id, download_queue, cpc, vpc,
          vstarted, ev, out, announced, waited, received, requested,
          vq, waiting, available, next, timers, stored, waitlog, upstream,
          session, tcp, frames, consumed, reader_bytes, remaining_bytes, t_rc,
          input, output, blocks, current_file>>

(***************************************************************************)
(* NodeHandle (src/src/node.rs)                                            *)
(***************************************************************************)
\* command_sender: the number of the channel the handle writes on; reader:
\* a session thread holds the receiving end of that channel
NodeHandle_new(id, command_sender) ==
    [id |-> id, command_sender |-> command_sender, reader |-> TRUE,
     state |-> "CONNECTING", download_current |-> <<>>]

\* a command written on a NodeHandle's channel
Cmd(nh, t, arg) ==
    [kind |-> "cmd", to |-> nh.id, chan |-> nh.command_sender, t |-> t, arg |-> arg]
\* a session spawned under an identifier of its own
Spawn_new_id(nh) == [kind |-> "spawn", t |-> "start_node", to |-> nh.id + NPeers, chan |-> nh.command_sender]
\* thread::spawn(start_node(node_id, .., command_receiver, ..))
Spawn(nh) == [kind |-> "spawn", t |-> "start_node", to |-> nh.id, chan |-> nh.command_sender]
\* a message written on the Validator's channel
VMsg(t, arg) == [kind |-> "valider", t |-> t, arg |-> arg]

NodeHandle_mark_downloaded(nh, block) ==
    LET h == Block_hash(block)
        dc == nh.download_current
    IN  IF Contains(dc, h)
        THEN LET index == CHOOSE i \in 1 .. Len(dc) :
                              dc[i] = h /\ \A j \in 1 .. (i - 1) : dc[j] # h
                 \* Vec::swap_remove: the last element takes the place of index
                 swapped == [dc EXCEPT ![index] = dc[Len(dc)]]
             IN  [nh EXCEPT !.download_current = SubSeq(swapped, 1, Len(dc) - 1)]
        ELSE nh

\* a download_next that takes the whole queue
NodeHandle_download_next_all(nh, queue) ==
    IF nh.state # "UPDATING_BLOCKS" \/ nh.download_current # <<>> \/ queue = <<>>
    THEN [nh |-> nh, queue |-> queue, out |-> <<>>,
          ret |-> nh.state = "UPDATING_BLOCKS" /\ nh.download_current # <<>>]
    ELSE [nh |-> [nh EXCEPT !.download_current = queue], queue |-> <<>>,
          out |-> <<Cmd(nh, "getdata", queue)>>, ret |-> TRUE]

NodeHandle_download_next(nh, queue) ==
    IF nh.state # "UPDATING_BLOCKS"
    THEN [nh |-> nh, queue |-> queue, out |-> <<>>, ret |-> FALSE]
    ELSE IF nh.download_current = <<>>
    THEN LET count_to_download == Min(MAX_DOWNLOADING_BLOCKS, Len(queue))
         IN  IF count_to_download = 0
             THEN [nh |-> nh, queue |-> queue, out |-> <<>>, ret |-> FALSE]
             ELSE LET cur == SubSeq(queue, 1, count_to_download)
                  IN  [nh |-> [nh EXCEPT !.download_current = cur],
                       queue |-> SubSeq(queue, count_to_download + 1, Len(queue)),
                       out |-> <<Cmd(nh, "getdata", cur)>>,
                       ret |-> TRUE]
    ELSE [nh |-> nh, queue |-> queue, out |-> <<>>, ret |-> TRUE]

\* a set_state that skips UPDATING_PEERS
NodeHandle_set_state_blocks(nh, state) == [nh EXCEPT !.state = "UPDATING_BLOCKS"]
NodeHandle_set_state(nh, state) == [nh EXCEPT !.state = state]

NodeHandle_is_downloading(nh, h) == Contains(nh.download_current, h)

\* reset: a fresh command channel, and the entry waits for the new session's
\* handshake
NodeHandle_reset(nh, command_sender) ==
    [nh EXCEPT !.command_sender = command_sender, !.state = "CONNECTING"]

(***************************************************************************)
(* Coordinator (src/src/lib.rs).  A handler is a function from the global  *)
(* state G = [nodes, known, sync, queue] to the state it leaves, the       *)
(* messages it sent and the session threads it spawned (out, in order)     *)
(* and whether it panicked (dead).                                         *)
(***************************************************************************)
Result(G, o, dead) ==
    [nodes |-> G.nodes, known |-> G.known, sync |-> G.sync, queue |-> G.queue,
     out |-> o, dead |-> dead, killed |-> {}]

\* nodes.iter_mut().nth(node_id)
get_node_handle(ns, node_id) ==
    IF node_id + 1 \in 1 .. Len(ns) THEN Some(ns[node_id + 1]) ELSE None

\* the loop of send_download_message over download_nodes
RECURSIVE download_all(_, _)
download_all(download_nodes, queue) ==
    IF download_nodes = <<>>
    THEN [nodes |-> <<>>, queue |-> queue, out |-> <<>>]
    ELSE LET r == NodeHandle_download_next(Head(download_nodes), queue)
             rest == download_all(Tail(download_nodes), r.queue)
         IN  [nodes |-> <<r.nh>> \o rest.nodes, queue |-> rest.queue,
              out |-> r.out \o rest.out]

\* download_nodes is a vector of clones of the entries of state.nodes
\* (.cloned().collect() / state.nodes.clone()): download_next pops from the
\* shared download_queue and sends on the shared channel, and what it writes
\* to download_current is written to the clone, which is then dropped.
send_download_message(G) ==
    IF Len(G.nodes) > 1 /\ G.sync = None
    THEN Result(G, <<>>, TRUE)          \* state.sync_node_id.unwrap()
    ELSE LET download_nodes ==
                 IF Len(G.nodes) > 1
                 THEN SelectSeq(G.nodes, LAMBDA elt : elt.id # unwrap(G.sync))
                 ELSE G.nodes
             r == download_all(download_nodes, G.queue)
         IN  Result([G EXCEPT !.queue = r.queue], r.out, FALSE)

\* lines 176-182: download_current_pop / push_front until empty
requeue_back(download_current, queue) == queue \o download_current
requeue(download_current, queue) == download_current \o queue

\* dns_ok: get_peers_from_dns(config, 1) returned an address
node_restart_with_new_peer(G, node_id, dns_ok) ==
    IF get_node_handle(G.nodes, node_id) = None THEN Result(G, <<>>, FALSE)
    ELSE
    LET node_handle == unwrap(get_node_handle(G.nodes, node_id))
    IN  LET kill == Cmd(node_handle, "Kill", <<>>)
            queue1 == requeue(node_handle.download_current, G.queue)
            drained == [node_handle EXCEPT !.download_current = <<>>]
            fresh == NodeHandle_reset(drained, node_handle.command_sender + 1)
            G1 == [G EXCEPT !.nodes[node_id + 1] = fresh, !.queue = queue1]
        IN  IF G.known = {} /\ ~dns_ok
            THEN \* lines 200-203: command_receiver is dropped on return
                 [Result([G1 EXCEPT !.nodes[node_id + 1].reader = FALSE],
                         <<kill>>, FALSE) EXCEPT !.killed = {node_id}]
            ELSE LET r == send_download_message(G1)
                 IN  [r EXCEPT !.out = <<kill, Spawn(fresh)>> \o r.out,
                               !.killed = {node_id}]

\* a hash put at the back of the queue
push_back(queue, hash) == Append(queue, hash)
\* VecDeque::push_front
push_front(queue, hash) == <<hash>> \o queue

handle_valider_message(G, valider_message, dns_ok) ==
    LET hash == valider_message.arg
        holders == {i \in 1 .. Len(G.nodes) :
                        NodeHandle_is_downloading(G.nodes[i], hash)}
    IN  IF valider_message.t # "Timeout" THEN Result(G, <<>>, FALSE)
        ELSE IF holders = {}
        THEN send_download_message([G EXCEPT !.queue = push_front(G.queue, hash)])
        ELSE LET first == CHOOSE i \in holders : \A j \in holders : i <= j
             IN  node_restart_with_new_peer(G, G.nodes[first].id, dns_ok)

\* a getheaders that stops at its locator
getheaders_stop_at_locator(nh, locator) ==
    Cmd(nh, "getheaders", [version |-> 70013, locator |-> locator, stop |-> locator[1]])

getheaders(nh, locator) ==
    Cmd(nh, "getheaders", [version |-> 70013, locator |-> locator, stop |-> ZeroHash])

\* lines 336-344: download_queue.push_back(header.hash()) for each header
push_front_all(queue, hashes) == hashes \o queue
push_back_all(queue, hashes) == queue \o hashes

\* line 359: headers.len() == MAX_HEADERS
is_nearly_full(headers) == Len(headers) >= MAX_HEADERS - 1
is_full(headers) == Len(headers) = MAX_HEADERS

\* valider_up: the Validator's receiver still exists (send(..).unwrap())
handle_node_response(G, response, dns_ok, valider_up) ==
    IF get_node_handle(G.nodes, response.node_id) = None
    THEN Result(G, <<>>, FALSE)
    ELSE
    LET node_handle == unwrap(get_node_handle(G.nodes, response.node_id))
        ix == response.node_id + 1
    IN  CASE response.t = "Connected" ->
                 IF node_handle.state = "CONNECTING"
                 THEN IF ~node_handle.reader
                      THEN Result(G, <<>>, TRUE)    \* NodeHandle::send: unwrap()
                      ELSE Result([G EXCEPT !.nodes[ix] =
                                      NodeHandle_set_state(node_handle, "UPDATING_PEERS")],
                                  <<Cmd(node_handle, "getaddr", <<>>)>>, FALSE)
                 ELSE Result(G, <<>>, FALSE)
          [] response.t = "Addrs" ->
                 LET G1 == [G EXCEPT !.known = G.known \cup response.arg]
                 IN  IF node_handle.state = "UPDATING_PEERS"
                     THEN LET nh1 == NodeHandle_set_state(node_handle, "UPDATING_BLOCKS")
                          IN  IF G.sync = None
                              THEN Result([G1 EXCEPT !.nodes[ix] = nh1,
                                                     !.sync = Some(response.node_id)],
                                          <<getheaders(nh1, <<genesis_hash>>)>>, FALSE)
                              ELSE LET r == NodeHandle_download_next(nh1, G.queue)
                                   IN  Result([G1 EXCEPT !.nodes[ix] = r.nh,
                                                         !.queue = r.queue],
                                              r.out, FALSE)
                     ELSE Result(G1, <<>>, FALSE)
          [] response.t = "Headers" ->
                 IF G.sync = None THEN Result(G, <<>>, TRUE)   \* unwrap()
                 ELSE IF node_handle.id # unwrap(G.sync) THEN Result(G, <<>>, FALSE)
                 ELSE
                 LET headers == response.arg
                     valid == SelectSeq(headers, BlockHeader_validate)
                     pushed == [i \in 1 .. Len(valid) |-> BlockHeader_hash(valid[i])]
                     G1 == [G EXCEPT !.queue = push_back_all(G.queue, pushed)]
                     wait == VMsg("Wait", [i \in 1 .. Len(headers) |->
                                              BlockHeader_hash(headers[i])])
                 IN  IF ~valider_up THEN Result(G1, <<>>, TRUE)
                     ELSE
                     LET r == send_download_message(G1)
                         again == is_full(headers) /\ ~r.dead
                         sync_node == unwrap(get_node_handle(r.nodes, unwrap(r.sync)))
                         more == IF again /\ sync_node.reader
                                 THEN <<getheaders(sync_node,
                                          <<BlockHeader_hash(headers[Len(headers)])>>)>>
                                 ELSE <<>>
                     IN  [r EXCEPT !.out = <<wait>> \o r.out \o more,
                                   !.dead = r.dead \/ (again /\ ~sync_node.reader)]
          [] response.t = "Block" ->
                 LET nh1 == NodeHandle_mark_downloaded(node_handle, response.arg)
                     G1 == [G EXCEPT !.nodes[ix] = nh1]
                 IN  IF ~valider_up THEN Result(G1, <<>>, TRUE)
                     ELSE LET r == NodeHandle_download_next(nh1, G.queue)
                          IN  Result([G1 EXCEPT !.nodes[ix] = r.nh, !.queue = r.queue],
                                     <<VMsg("Validate", response.arg)>> \o r.out, FALSE)
          [] response.t = "ConnectionClosed" ->
                 node_restart_with_new_peer(G, node_handle.id, dns_ok)
          [] OTHER -> Result(G, <<>>, FALSE)

\* messages on the controller channel
NodeResponse(node_id, t, arg) == [src |-> "node", node_id |-> node_id, t |-> t, arg |-> arg]
ValiderResponse(t, arg) == [src |-> "valider", t |-> t, arg |-> arg]

getdata_hashes(o, p) ==
    UNION {SeqToSet(o[i].arg) : i \in {j \in 1 .. Len(o) :
              o[j].kind = "cmd" /\ o[j].t = "getdata" /\ o[j].to = p}}

\* run, lines 134-150: `message` is received from the controller channel and
\* handled
Handle(message) ==
    /\ cpc = "run"
    /\ \E dns_ok \in (IF known_active_nodes = {} THEN BOOLEAN ELSE {TRUE}) :
       \E r \in {IF message.src = "node"
                 THEN handle_node_response(
                          [nodes |-> nodes, known |-> known_active_nodes,
                           sync |-> sync_node_id, queue |-> download_queue],
                          message, dns_ok, vpc # "dead")
                 ELSE handle_valider_message(
                          [nodes |-> nodes, known |-> known_active_nodes,
                           sync |-> sync_node_id, queue |-> download_queue],
                          message, dns_ok)} :
       \E to_valider \in {SelectSeq(r.out, LAMBDA m : m.kind = "valider")} :
        LET is_block == message.src = "node" /\ message.t = "Block"
            is_headers == /\ message.src = "node" /\ message.t = "Headers"
                          /\ sync_node_id = Some(message.node_id)
        IN  /\ nodes' = r.nodes
            /\ known_active_nodes' = r.known
            /\ sync_node_id' = r.sync
            /\ download_queue' = r.queue
            /\ cpc' = IF r.dead THEN "dead" ELSE "run"
            /\ vstarted' = (vstarted \/ to_valider # <<>>)
            /\ ev' = [src |-> message.src, t |-> message.t]
            /\ out' = r.out
            /\ announced' = IF is_headers
                             THEN announced \cup
                                  {BlockHeader_hash(message.arg[i]) : i \in
                                     {j \in 1 .. Len(message.arg) :
                                          BlockHeader_validate(message.arg[j])}}
                             ELSE announced
            /\ waited' = waited \cup
                  UNION {SeqToSet(to_valider[i].arg) : i \in
                            {j \in 1 .. Len(to_valider) : to_valider[j].t = "Wait"}}
            /\ received' = IF is_block
                            THEN received \cup {Block_hash(message.arg)} ELSE received
            /\ requested' = [p \in NodeIds |->
                  LET kept == IF p \in r.killed THEN {}
                              ELSE IF is_block /\ message.node_id = p
                              THEN requested[p] \ {Block_hash(message.arg)}
                              ELSE requested[p]
                  IN  kept \cup getdata_hashes(r.out, p)]
    /\ UNCHANGED <<vpc, vvars, session, wvars>>

(***************************************************************************)
(* The Coordinator's environment: the events the session threads of a peer *)
(* id and the Validator send on the controller channel.  Neither the       *)
(* remote peer nor the order in which the threads of old and new sessions  *)
(* get to send is constrained; the headers a peer serves are consecutive   *)
(* headers of one chain.                                                   *)
(***************************************************************************)
\* the next k headers of the chain after those already announced
ChainSegment(k) == [i \in 1 .. k |-> Cardinality(announced) + i]

\* the number of sessions spawned after the first ones
RECURSIVE restarts(_)
restarts(ns) == IF ns = <<>> THEN 0 ELSE Head(ns).command_sender + restarts(Tail(ns))
CanRestart == restarts(nodes) < MaxRestarts

\* MessageVerack::handle in VER_RECEIVED
Connected(p) ==
    /\ p \in NodeIds
    /\ Handle(NodeResponse(p, "Connected", <<>>))

\* an addr message of the remote peer
Addrs(p, addrs) ==
    /\ p \in NodeIds
    /\ Handle(NodeResponse(p, "Addrs", addrs))

\* a headers message of the remote peer
Headers(p, headers) ==
    /\ p \in NodeIds
    /\ Handle(NodeResponse(p, "Headers", headers))

\* MessageBlock::handle
Block(p, block) ==
    /\ p \in NodeIds
    /\ Handle(NodeResponse(p, "Block", block))

\* start_node: TcpStream::connect fails; or the connection is lost
ConnectionClosed(p) ==
    /\ CanRestart
    /\ Handle(NodeResponse(p, "ConnectionClosed", <<>>))

\* the hashes the Validator may have been awaiting: every earlier hash of
\* the Wait lists has been validated
Awaited == {BlockHeader_hash(k) : k \in
               {j \in 1 .. Cardinality(waited) :
                    \A i \in 1 .. (j - 1) : BlockHeader_hash(i) \in received}}

\* valider.rs lines 101-103
Timeout(h) ==
    /\ h \in Awaited
    /\ Len(download_queue) < MaxQueue
    /\ CanRestart
    /\ Handle(ValiderResponse("Timeout", h))

\* valider.rs lines 121-123
Store(h) ==
    /\ h \in waited \cap received
    /\ Handle(ValiderResponse("Store", h))

\* valider.rs line 59: waiting.pop_front().unwrap() once every awaited hash
\* has been stored (or nothing was awaited when the first message came)
ValiderExit ==
    /\ vpc # "dead"
    /\ vstarted
    /\ waited \subseteq received
    /\ vpc' = "dead"
    /\ UNCHANGED <<cvars, hvars, vvars, session, wvars>>

(***************************************************************************)
(* Validator (src/src/valider.rs)                                          *)
(***************************************************************************)
map_insert(m, k, v) == [x \in DOMAIN m \cup {k} |-> IF x = k THEN v ELSE m[x]]
map_remove(m, k) == [x \in DOMAIN m \ {k} |-> m[x]]

\* the body of `loop`, lines 58-68 and 115-123, up to the next recv (or panic)
RECURSIVE valider_loop(_, _, _)
valider_loop(w, av, st) ==
    IF w = <<>>
    THEN [pc |-> "dead", waiting |-> w, available |-> av, stored |-> st,
          next |-> None, arm |-> {}]        \* waiting.pop_front().unwrap()
    ELSE LET n == Head(w)
         IN  IF n \in DOMAIN av
             THEN valider_loop(Tail(w), map_remove(av, n), Append(st, <<n, av[n]>>))
             ELSE [pc |-> "wait", waiting |-> Tail(w), available |-> av,
                   stored |-> st, next |-> Some(n), arm |-> {n}]

ArmTimers(hs) == [h \in Hashes |-> IF h \in hs THEN timers[h] + 1 ELSE timers[h]]

\* lines 36-55, then the loop
ValiderFirst ==
    /\ vpc = "first"
    /\ vq # <<>>
    /\ \E r \in {valider_loop(IF Head(vq).t = "Wait" THEN Head(vq).arg ELSE <<>>,
                              <<>>, <<>>)} :
           /\ vpc' = r.pc
           /\ waiting' = r.waiting
           /\ available' = r.available
           /\ stored' = r.stored
           /\ next' = r.next
           /\ timers' = ArmTimers(r.arm)
    /\ waitlog' = IF Head(vq).t = "Wait" THEN Head(vq).arg ELSE <<>>
    /\ vq' = Tail(vq)
    /\ UNCHANGED <<cvars, hvars, upstream, session, wvars>>

\* lines 72-88
RecvWait(m) ==
    /\ waiting' = waiting \o m.arg
    /\ waitlog' = waitlog \o m.arg
    /\ UNCHANGED <<vpc, available, stored, next, timers, upstream>>

\* a Validator that hands blocks on in the order they arrive
RecvValidate_on_arrival(m) ==
    /\ stored' = Append(stored, <<Block_hash(m.arg), m.arg>>)
    /\ UNCHANGED <<vpc, waiting, available, next, timers, waitlog, upstream>>

\* lines 89-93, and lines 115-123 and the loop when `next` has become available
RecvValidate(m) ==
    \E av \in {map_insert(available, Block_hash(m.arg), m.arg)} :
        IF unwrap(next) \in DOMAIN av
        THEN \E r \in {valider_loop(waiting, map_remove(av, unwrap(next)),
                                    Append(stored, <<unwrap(next), av[unwrap(next)]>>))} :
                 /\ vpc' = r.pc
                 /\ waiting' = r.waiting
                 /\ available' = r.available
                 /\ stored' = r.stored
                 /\ next' = r.next
                 /\ timers' = ArmTimers(r.arm)
                 /\ UNCHANGED <<waitlog, upstream>>
        ELSE /\ available' = av
             /\ UNCHANGED <<vpc, waiting, stored, next, timers, waitlog, upstream>>

\* a Validator that reports every timeout
RecvTimeout_any(m) ==
    /\ upstream' = Append(upstream, ValiderResponse("Timeout", m.arg))
    /\ timers' = ArmTimers({m.arg})
    /\ UNCHANGED <<vpc, waiting, available, stored, next, waitlog>>

\* a Validator that reports a timeout without re-arming the timer
RecvTimeout_once(m) ==
    IF m.arg = unwrap(next)
    THEN /\ upstream' = Append(upstream, ValiderResponse("Timeout", m.arg))
         /\ UNCHANGED <<vpc, waiting, available, stored, next, waitlog, timers>>
    ELSE UNCHANGED <<vpc, waiting, available, stored, next, waitlog, timers, upstream>>

\* lines 94-109
RecvTimeout(m) ==
    IF m.arg = unwrap(next)
    THEN /\ upstream' = Append(upstream, ValiderResponse("Timeout", m.arg))
         /\ timers' = ArmTimers({m.arg})
         /\ UNCHANGED <<vpc, waiting, available, stored, next, waitlog>>
    ELSE UNCHANGED <<vpc, waiting, available, stored, next, waitlog, timers, upstream>>

\* lines 69-112: one message received while `next` is awaited
ValiderRecv ==
    /\ vpc = "wait"
    /\ vq # <<>>
    /\ CASE Head(vq).t = "Wait" -> RecvWait(Head(vq))
         [] Head(vq).t = "Validate" -> RecvValidate(Head(vq))
         [] Head(vq).t = "Timeout" -> RecvTimeout(Head(vq))
    /\ vq' = Tail(vq)
    /\ UNCHANGED <<cvars, hvars, session, wvars>>

\* timeout(): the sleep of a timer thread ends; the send panics the timer
\* thread when the Validator is gone
TimerFires(h) ==
    /\ timers[h] > 0
    /\ Len(upstream) < MaxTimeouts
    /\ timers' = [timers EXCEPT ![h] = timers[h] - 1]
    /\ vq' = IF vpc # "dead" THEN Append(vq, [t |-> "Timeout", arg |-> h]) ELSE vq
    /\ UNCHANGED <<cvars, hvars, vpc, waiting, available, next, stored, waitlog,
                   upstream, session, wvars>>

(***************************************************************************)
(* The Validator's environment: what the Coordinator writes on its channel *)
(* (lib.rs lines 351-355 and 381-384)                                      *)
(***************************************************************************)
RECURSIVE waited_in(_)
waited_in(q) ==
    IF q = <<>> THEN 0
    ELSE (IF Head(q).t = "Wait" THEN Len(Head(q).arg) ELSE 0) + waited_in(Tail(q))

SendWait(hashes) ==
    /\ vpc # "dead"
    /\ Len(vq) < MaxVq
    /\ Len(waitlog) + waited_in(vq) + Len(hashes) <= MaxWaited
    /\ vq' = Append(vq, [t |-> "Wait", arg |-> hashes])
    /\ UNCHANGED <<cvars, hvars, vpc, waiting, available, next, timers, stored,
                   waitlog, upstream, session, wvars>>

SendValidate(block) ==
    /\ vpc # "dead"
    /\ Len(vq) < MaxVq
    /\ vq' = Append(vq, [t |-> "Validate", arg |-> block])
    /\ UNCHANGED <<cvars, hvars, vpc, waiting, available, next, timers, stored,
                   waitlog, upstream, session, wvars>>

(***************************************************************************)
(* Peer session: the writer thread of a Node (src/src/node.rs) and the     *)
(* message handlers it dispatches to (src/src/message).  `stream` is what  *)
(* the session has written to the remote peer, `responses` what it has     *)
(* sent on the controller channel, `inbox` what it has received from       *)
(* writer_receiver, all in order; `conn` is the TCP connection as the      *)
(* reader thread last saw it ("open", "eof" after a read of 0 bytes,       *)
(* "error" after a failed read).                                           *)
(***************************************************************************)
Node_new(node_id) ==
    [node_id |-> node_id, state |-> "CLOSED", pc |-> "new",
     stream |-> <<>>, responses |-> <<>>, inbox |-> <<>>, conn |-> "open"]

\* Node::run up to the loop
Node_run(node) ==
    [node EXCEPT !.stream = Append(node.stream, "version"),
                 !.state = "VER_SENT", !.pc = "loop"]

\* a verack handler that takes the first verack for the end of the handshake
MessageVerack_handle_early(node) ==
    IF node.state \in {"VER_SENT", "VER_RECEIVED"}
    THEN [node EXCEPT !.responses = Append(node.responses, "Connected"),
                      !.state = "ESTABLISHED"]
    ELSE [node EXCEPT !.pc = "dead"]

MessageVerack_handle(node) ==
    CASE node.state = "VER_SENT" -> [node EXCEPT !.state = "VERACK_RECEIVED"]
      [] node.state = "VER_RECEIVED" ->
             [node EXCEPT !.responses = Append(node.responses, "Connected"),
                          !.state = "ESTABLISHED"]
      [] OTHER -> [node EXCEPT !.pc = "dead"]

MessageVersion_handle(node) ==
    LET acked == [node EXCEPT !.stream = Append(node.stream, "verack")]
    IN  CASE node.state = "VER_SENT" -> [acked EXCEPT !.state = "VER_RECEIVED"]
          [] node.state = "VERACK_RECEIVED" -> [acked EXCEPT !.state = "ESTABLISHED"]
          [] OTHER -> [acked EXCEPT !.pc = "dead"]

\* a ping handler that gives up on a ping ahead of the handshake's end
MessagePing_handle_strict(node) ==
    IF node.state = "ESTABLISHED"
    THEN [node EXCEPT !.stream = Append(node.stream, "pong")]
    ELSE [node EXCEPT !.pc = "dead"]

MessagePing_handle(node) == [node EXCEPT !.stream = Append(node.stream, "pong")]

MessageBlock_handle(node, block) ==
    [node EXCEPT !.responses = Append(node.responses, <<"Block", block>>)]

Node_handle_message(node, m) ==
    CASE m.t = "version" -> MessageVersion_handle(node)
      [] m.t = "verack" -> MessageVerack_handle(node)
      [] m.t = "ping" -> MessagePing_handle(node)
      [] m.t = "block" -> MessageBlock_handle(node, m.arg)
      [] OTHER -> node

\* write_ok: stream.write / flush returned Ok (unwrap() panics otherwise)
Node_handle_command(node, m, write_ok) ==
    IF write_ok THEN [node EXCEPT !.stream = Append(node.stream, m.arg)]
    ELSE [node EXCEPT !.pc = "dead"]

\* reader, lines 401-405: read returned 0 bytes, the reader thread leaves
\* its loop and ends
reader_eof(node) == [node EXCEPT !.conn = "eof"]

\* reader, line 401: read returned Err, unwrap() panics the reader thread
reader_error(node) == [node EXCEPT !.conn = "error"]

\* start_node, lines 438-453: connect failed
start_node_failed(node) ==
    [node EXCEPT !.responses = Append(node.responses, "ConnectionClosed"),
                 !.pc = "returned"]

\* the messages a remote peer may send, and the commands of the Coordinator
RemoteMessages ==
    {[kind |-> "message", t |-> t, arg |-> <<>>] : t \in {"version", "verack", "ping"}}
        \cup {[kind |-> "message", t |-> "block", arg |-> b] : b \in Blocks}
Commands == {[kind |-> "command", t |-> "SendMessage", arg |-> "getaddr"]}

\* start_node: the session thread starts
SessionRun(p) ==
    /\ session[p].pc = "new"
    /\ session' = [session EXCEPT ![p] = Node_run(session[p])]
    /\ UNCHANGED <<cvars, hvars, vpc, vvars, wvars>>

\* start_node: TcpStream::connect fails
SessionConnectFails(p) ==
    /\ session[p].pc = "new"
    /\ session' = [session EXCEPT ![p] = start_node_failed(session[p])]
    /\ UNCHANGED <<cvars, hvars, vpc, vvars, wvars>>

\* Node::run lines 261-270: one item of writer_receiver.  Messages come
\* from the reader thread while it runs; a write on a connection the remote
\* has closed or that has failed may fail.
SessionRecv(p, m) ==
    /\ session[p].pc = "loop"
    /\ Len(session[p].inbox) < MaxInbox
    /\ m.kind = "message" => session[p].conn = "open"
    /\ \E node \in {[session[p] EXCEPT !.inbox = Append(session[p].inbox, m.t)]} :
       \E write_ok \in IF session[p].conn = "open" THEN {TRUE} ELSE BOOLEAN :
           session' = [session EXCEPT ![p] =
                          IF m.kind = "message" THEN Node_handle_message(node, m)
                          ELSE Node_handle_command(node, m, write_ok)]
    /\ UNCHANGED <<cvars, hvars, vpc, vvars, wvars>>

\* the remote closes the connection: the reader's read returns 0
ReaderEof(p) ==
    /\ session[p].pc \in {"loop", "dead"}
    /\ session[p].conn = "open"
    /\ session' = [session EXCEPT ![p] = reader_eof(session[p])]
    /\ UNCHANGED <<cvars, hvars, vpc, vvars, wvars>>

\* a socket error: the reader's read returns Err
ReaderError(p) ==
    /\ session[p].pc \in {"loop", "dead"}
    /\ session[p].conn = "open"
    /\ session' = [session EXCEPT ![p] = reader_error(session[p])]
    /\ UNCHANGED <<cvars, hvars, vpc, vvars, wvars>>

(***************************************************************************)
(* Wire format (src/src/variable_integer.rs, src/src/message).  A byte is  *)
(* a number in 0 .. 255 and a buffer a sequence of bytes.  An unsigned     *)
(* integer of w bits is kept as its w/16 little-endian limbs of 16 bits,   *)
(* so that u32 and u64 keep their width.                                   *)
(***************************************************************************)
Byte == 0 .. 255
Limb == 0 .. 65535

\* u64 / u32 from a number below 2^16
U64(n) == <<n, 0, 0, 0>>
U32(n) == <<n, 0>>

\* the values of a limb that matter to the encoding
LimbValues == {0, 1, 252, 253, 254, 255, 256, 65535}
U64Values == {<<a, b, c, d>> : a \in LimbValues, b \in {0, 1, 65535},
                                c \in {0, 1, 65535}, d \in {0, 1, 65535}}

\* <integer>.to_le_bytes()
to_le_bytes(v) == [i \in 1 .. 2 * Len(v) |->
                      IF i % 2 = 1 THEN v[(i + 1) \div 2] % 256
                      ELSE v[i \div 2] \div 256]

\* <integer>::from_le_bytes(bytes), Len(bytes) even
from_le_bytes(bytes) == [i \in 1 .. Len(bytes) \div 2 |->
                            bytes[2 * i - 1] + 256 * bytes[2 * i]]

\* integer as usize, for the values that fit the model's numbers
as_usize(v) == v[1]

Take(s, n) == SubSeq(s, 1, n)
Drop(s, n) == SubSeq(s, n + 1, Len(s))

\* a VarInt encoding that always takes the widest form
VariableInteger_bytes_wide(integer) == <<255>> \o to_le_bytes(integer)

\* VariableInteger::new(integer).bytes()
VariableInteger_bytes(integer) ==
    IF integer[2] = 0 /\ integer[3] = 0 /\ integer[4] = 0 /\ integer[1] < 253
    THEN <<integer[1] % 256>>
    ELSE IF integer[2] = 0 /\ integer[3] = 0 /\ integer[4] = 0
    THEN <<253>> \o Take(to_le_bytes(integer), 2)
    ELSE IF integer[3] = 0 /\ integer[4] = 0
    THEN <<254>> \o Take(to_le_bytes(integer), 4)
    ELSE <<255>> \o Take(to_le_bytes(integer), 8)

\* VariableInteger::from_bytes(bytes): Some(<<value, size>>), or None where
\* the code panics on an index out of range
VariableInteger_from_bytes(bytes) ==
    IF bytes = <<>> THEN None
    ELSE LET first_byte == bytes[1]
             end_index == IF first_byte = 253 THEN 3
                          ELSE IF first_byte = 254 THEN 5 ELSE 9
         IN  IF first_byte < 253 THEN Some(<<U64(first_byte), 1>>)
             ELSE IF Len(bytes) < end_index THEN None
             ELSE LET nbytes == [i \in 1 .. 8 |->
                                    IF i <= end_index - 1 THEN bytes[1 + i] ELSE 0]
                  IN  Some(<<from_le_bytes(nbytes), end_index>>)

\* the test of variable_integer.rs lines 76-82 on one number
VarIntRoundTrip ==
    /\ input \in U64Values
    /\ output = None
    /\ output' = VariableInteger_from_bytes(VariableInteger_bytes(input))
    /\ UNCHANGED <<cvars, hvars, vpc, vvars, session, rvars, svars, input>>

(***************************************************************************)
(* Messages (src/src/message).  A command is a record with its NAME and    *)
(* its fields; the commands modelled are those with an empty payload       *)
(* (verack, getaddr, sendheaders), with a u64 (ping, pong, feefilter),     *)
(* with a block locator (getheaders, getblocks) and with an inventory      *)
(* (inv, getdata, notfound).  parse knows version, alert, addr, headers    *)
(* and block as well; no frame of these is built here.                     *)
(***************************************************************************)
\* NAME.char_indices(): the ASCII codes of the command names
Ascii ==
    [verack |-> <<118, 101, 114, 97, 99, 107>>,
     getaddr |-> <<103, 101, 116, 97, 100, 100, 114>>,
     sendheaders |-> <<115, 101, 110, 100, 104, 101, 97, 100, 101, 114, 115>>,
     ping |-> <<112, 105, 110, 103>>,
     pong |-> <<112, 111, 110, 103>>,
     feefilter |-> <<102, 101, 101, 102, 105, 108, 116, 101, 114>>,
     getheaders |-> <<103, 101, 116, 104, 101, 97, 100, 101, 114, 115>>,
     getblocks |-> <<103, 101, 116, 98, 108, 111, 99, 107, 115>>,
     inv |-> <<105, 110, 118>>,
     getdata |-> <<103, 101, 116, 100, 97, 116, 97>>,
     notfound |-> <<110, 111, 116, 102, 111, 117, 110, 100>>,
     mock |-> <<109, 111, 99, 107>>]

EmptyCommands == {"verack", "getaddr", "sendheaders"}
U64Commands == {"ping", "pong", "feefilter"}
LocatorCommands == {"getheaders", "getblocks"}
InvCommands == {"inv", "getdata", "notfound"}
CommandNames == EmptyCommands \cup U64Commands \cup LocatorCommands \cup InvCommands

\* the magic numbers parse accepts, as u32
MAGIC_MAIN == <<48889, 55732>>
MAGIC_TESTNET == <<49146, 55989>>
MAGIC_TESTNET3 == <<4363, 1801>>
MAGIC_NAMECOIN == <<48889, 65204>>

\* Hash32 values: [u8; 32]
Hash32Values == {[i \in 1 .. 32 |-> 0], [i \in 1 .. 32 |-> i]}

\* crypto::hash32_to_bytes and crypto::bytes_to_hash32 both reverse
hash32_to_bytes(hash) == [i \in 1 .. Len(hash) |-> hash[Len(hash) + 1 - i]]
bytes_to_hash32(data) == [i \in 1 .. Len(data) |-> data[Len(data) + 1 - i]]

\* &crypto::hash32(payload)[0..4].  SHA-256d is stood for by four sums over
\* the payload, which tell apart the payloads met here.
RECURSIVE weighted(_, _, _, _)
weighted(data, lo, hi, w) ==
    IF lo > hi THEN 0
    ELSE IF lo = hi THEN (data[lo] * (((w * lo) % 251) + 1)) % 256
    ELSE LET mid == (lo + hi) \div 2
         IN  (weighted(data, lo, mid, w) + weighted(data, mid + 1, hi, w)) % 256
checksum(payload) ==
    <<Len(payload) % 256, weighted(payload, 1, Len(payload), 1),
      weighted(payload, 1, Len(payload), 7), weighted(payload, 1, Len(payload), 29)>>

\* the messages a command name can carry
InvVects == [hash_type : {U32(1), U32(2)}, hash : Hash32Values]
Nonces == {U64(0), <<513, 1027, 1541, 2055>>}
Commands_of(NAME) ==
    IF NAME \in EmptyCommands THEN {[NAME |-> NAME]}
    ELSE IF NAME \in U64Commands THEN [NAME : {NAME}, nonce : Nonces]
    ELSE IF NAME \in LocatorCommands
    THEN [NAME : {NAME}, version : {<<4477, 1>>},
          block_locator_hashes : SeqsUpTo(Hash32Values, MaxItems),
          hash_stop : Hash32Values]
    ELSE [NAME : {NAME}, inventory : SeqsUpTo(InvVects, MaxItems)]
MessageCommands == UNION {Commands_of(NAME) : NAME \in CommandNames}

\* MessageCommand::name(): NAME padded with zeros to 12 bytes
name(command) ==
    [i \in 1 .. 12 |-> IF i <= Len(Ascii[command.NAME])
                       THEN Ascii[command.NAME][i] ELSE 0]

\* the concatenation of the sequences of ss
RECURSIVE concat_range(_, _, _)
concat_range(ss, lo, hi) ==
    IF lo > hi THEN <<>>
    ELSE IF lo = hi THEN ss[lo]
    ELSE LET mid == (lo + hi) \div 2
         IN  concat_range(ss, lo, mid) \o concat_range(ss, mid + 1, hi)
concat(ss) == concat_range(ss, 1, Len(ss))

\* MessageInvBase::bytes (inv_base.rs) and MessageInv::bytes (inv.rs)
InvBase_bytes(inventory) ==
    VariableInteger_bytes(U64(Len(inventory)))
        \o concat([i \in 1 .. Len(inventory) |->
                      to_le_bytes(inventory[i].hash_type)
                          \o hash32_to_bytes(inventory[i].hash)])

\* MessageCommand::bytes()
command_bytes(command) ==
    CASE command.NAME \in EmptyCommands -> <<>>
      [] command.NAME \in U64Commands -> to_le_bytes(command.nonce)
      [] command.NAME = "getheaders" ->
             to_le_bytes(command.version)
                 \o VariableInteger_bytes(U64(Len(command.block_locator_hashes)))
                 \o concat(command.block_locator_hashes)
                 \o command.hash_stop
      [] command.NAME = "getblocks" ->
             to_le_bytes(command.version)
                 \o VariableInteger_bytes(U64(Len(command.block_locator_hashes)))
                 \o concat([i \in 1 .. Len(command.block_locator_hashes) |->
                               hash32_to_bytes(command.block_locator_hashes[i])])
                 \o hash32_to_bytes(command.hash_stop)
      [] command.NAME \in InvCommands -> InvBase_bytes(command.inventory)

\* MessageCommand::length()
command_length(command) ==
    CASE command.NAME \in EmptyCommands -> 0
      [] command.NAME \in U64Commands -> 8
      [] command.NAME = "getheaders" ->
             4 + Len(VariableInteger_bytes(U64(Len(command.block_locator_hashes))))
               + 32 * Len(command.block_locator_hashes) + 32
      [] command.NAME = "getblocks" ->
             4 + Len(VariableInteger_bytes(U64(Len(command.block_locator_hashes))))
               + Len(command.block_locator_hashes) * 4 + 4
      [] command.NAME \in InvCommands ->
             Len(VariableInteger_bytes(U64(Len(command.inventory))))
               + Len(command.inventory) * (4 + 32)

\* Message::bytes(): magic, name, length of the payload, checksum, payload
Message_bytes(message) ==
    LET command_bytes_ == command_bytes(message.command)
    IN  to_le_bytes(message.magic)
            \o name(message.command)
            \o to_le_bytes(U32(command_length(message.command)))
            \o checksum(command_bytes_)
            \o command_bytes_

\* a frame with a header and a payload of one's choosing
Frame(magic, name12, length, check, payload) ==
    to_le_bytes(magic) \o name12 \o to_le_bytes(U32(length)) \o check \o payload

\* the number is small enough for a list of that many items to lie in a
\* payload
fits(v) == \A i \in 2 .. Len(v) : v[i] = 0

\* the items of a list read by from_bytes: n items of `size` bytes from index
\* (0-based) on; None where a slice goes beyond the payload
Slices(data, index, n, size) ==
    IF index + n * size > Len(data) THEN None
    ELSE Some([i \in 1 .. n |->
                  SubSeq(data, index + (i - 1) * size + 1, index + i * size)])

\* MessageCommand::from_bytes(payload) of the command called NAME: Some
\* command, or None where the code panics (an assert, a slice out of range)
command_from_bytes(NAME, payload) ==
    CASE NAME \in EmptyCommands ->
             IF payload = <<>> THEN Some([NAME |-> NAME]) ELSE None
      [] NAME \in U64Commands ->
             IF Len(payload) = 8
             THEN Some([NAME |-> NAME, nonce |-> from_le_bytes(payload)])
             ELSE None
      [] NAME \in LocatorCommands ->
             IF Len(payload) < 4 \/ VariableInteger_from_bytes(Drop(payload, 4)) = None
             THEN None
             ELSE IF ~fits(unwrap(VariableInteger_from_bytes(Drop(payload, 4)))[1])
             THEN None
             ELSE LET vi == unwrap(VariableInteger_from_bytes(Drop(payload, 4)))
                      index == 4 + vi[2]
                      hashes == Slices(payload, index, as_usize(vi[1]) + 1, 32)
                      conv(h) == IF NAME = "getblocks" THEN bytes_to_hash32(h) ELSE h
                  IN  IF hashes = None THEN None
                      ELSE LET hs == unwrap(hashes)
                           IN  Some([NAME |-> NAME,
                                     version |-> from_le_bytes(Take(payload, 4)),
                                     block_locator_hashes |->
                                        [i \in 1 .. (Len(hs) - 1) |-> conv(hs[i])],
                                     hash_stop |-> conv(hs[Len(hs)])])
      [] NAME \in InvCommands ->
             IF VariableInteger_from_bytes(payload) = None THEN None
             ELSE IF ~fits(unwrap(VariableInteger_from_bytes(payload))[1]) THEN None
             ELSE LET vi == unwrap(VariableInteger_from_bytes(payload))
                      items == Slices(payload, vi[2], as_usize(vi[1]), 36)
                  IN  IF items = None THEN None
                      ELSE LET its == unwrap(items)
                               hash_type(i) == from_le_bytes(Take(its[i], 4))
                           IN  IF \E i \in 1 .. Len(its) :
                                      hash_type(i)[2] # 0 \/ hash_type(i)[1] > 4
                               THEN None           \* assert!(hash_type_is_valid)
                               ELSE Some([NAME |-> NAME,
                                          inventory |->
                                             [i \in 1 .. Len(its) |->
                                                 [hash_type |-> hash_type(i),
                                                  hash |-> bytes_to_hash32(
                                                             Drop(its[i], 4))]]])

\* the results of parse
Ok(message, used) == [t |-> "Ok", message |-> message, n |-> used]
Partial(needed) == [t |-> "Partial", message |-> None, n |-> needed]
Err(e) == [t |-> e, message |-> None, n |-> 0]

\* a parse that takes a frame for complete once its header is
parse_header_only(data) ==
    IF Len(data) < 24 THEN Partial(24 - Len(data))
    ELSE Ok([magic |-> from_le_bytes(Take(data, 4)), command |-> None], 24)

\* message::parse(bytes).  "panic" is where from_utf8(..).unwrap() or
\* from_bytes panics.
parse(data) ==
    LET magic == from_le_bytes(SubSeq(data, 1, 4))
        zeros == {i \in 0 .. 11 : data[5 + i] = 0}
        first_zero == IF zeros = {} THEN 0
                      ELSE CHOOSE i \in zeros : \A j \in zeros : i <= j
        name_ == SubSeq(data, 5, 4 + first_zero)
        length == from_le_bytes(SubSeq(data, 17, 20))
        to_read == 24 + length[1] + 65536 * length[2]
        check == SubSeq(data, 21, 24)
        payload == SubSeq(data, 25, to_read)
        known == {NAME \in CommandNames : Ascii[NAME] = name_}
    IN  IF Len(data) < 4 THEN Partial(24 - Len(data))
        ELSE IF magic \notin {MAGIC_MAIN, MAGIC_TESTNET, MAGIC_TESTNET3}
        THEN Err("InvalidMagicBytes")
        ELSE IF Len(data) < 16 THEN Partial(24 - Len(data))
        ELSE IF \E i \in 1 .. Len(name_) : name_[i] > 127 THEN Err("panic")
        ELSE IF Len(data) < 20 THEN Partial(24 - Len(data))
        ELSE IF Len(data) < 24 THEN Partial(to_read - Len(data))
        ELSE IF Len(data) < to_read THEN Partial(to_read - Len(data))
        ELSE IF checksum(payload) # check THEN Err("InvalidChecksum")
        ELSE IF known = {} THEN Err("UnknownMessage")
        ELSE LET NAME == CHOOSE n \in known : TRUE
                 command == command_from_bytes(NAME, payload)
             IN  IF command = None THEN Err("panic")
                 ELSE Ok([magic |-> magic, command |-> unwrap(command)], to_read)

\* parse is applied to the first k bytes of a frame
ParsePrefix ==
    /\ output = None
    /\ output' = Some(parse(Take(input.frame, input.k)))
    /\ UNCHANGED <<cvars, hvars, vpc, vvars, session, rvars, svars, input>>

(***************************************************************************)
(* The reader thread of a session (src/src/node.rs, reader): it reads the  *)
(* TCP stream into a buffer of 100 bytes and cuts it into frames.          *)
(***************************************************************************)
\* the size of `buffer`
READ_BUFFER == 100

\* a reader that hands each read to parse as it comes and forgets it
RECURSIVE reader_frame_per_read(_, _, _, _, _, _)
reader_frame_per_read(buffer, received_bytes, index, bytes_, remaining_bytes_, sent) ==
    LET r == parse(buffer)
    IN  [bytes |-> <<>>, remaining_bytes |-> 0,
         sent |-> IF r.t = "Ok" THEN Append(sent, r.message) ELSE sent,
         dead |-> r.t = "panic"]

\* the inner loop, lines 408-448, from `index` on: the buffer and
\* remaining_bytes it leaves and the messages it sent on t_rc
RECURSIVE reader_loop(_, _, _, _, _, _)
reader_loop(buffer, received_bytes, index, bytes_, remaining_bytes_, sent) ==
    LET curr_mess_bytes ==
            IF remaining_bytes_ > 0 /\ remaining_bytes_ < received_bytes - index
            THEN remaining_bytes_
            ELSE received_bytes - index
        previous_bytes == Len(bytes_)
        extended == bytes_ \o SubSeq(buffer, index + 1, index + curr_mess_bytes)
        r == parse(extended)
        used == IF r.t = "Ok" THEN r.n - previous_bytes ELSE curr_mess_bytes
        remaining == IF r.t = "Partial" THEN r.n ELSE 0
        kept == IF remaining = 0 THEN <<>> ELSE extended
        sent1 == IF r.t = "Ok" THEN Append(sent, r.message) ELSE sent
    IN  IF r.t = "panic"
        THEN [bytes |-> extended, remaining_bytes |-> 0, sent |-> sent, dead |-> TRUE]
        ELSE IF received_bytes - index > used
        THEN reader_loop(buffer, received_bytes, index + used, kept, remaining, sent1)
        ELSE [bytes |-> kept, remaining_bytes |-> remaining, sent |-> sent1,
              dead |-> FALSE]

\* lines 401-448: stream.read returns the next n bytes of the stream and
\* the inner loop runs on them
Read(n) ==
    /\ n \in 1 .. Min(READ_BUFFER, Len(tcp))
    /\ \E r \in {reader_loop(Take(tcp, n), n, 0, reader_bytes, remaining_bytes, <<>>)} :
           /\ ~r.dead
           /\ reader_bytes' = r.bytes
           /\ remaining_bytes' = r.remaining_bytes
           /\ t_rc' = t_rc \o r.sent
    /\ tcp' = Drop(tcp, n)
    /\ consumed' = consumed + n
    /\ UNCHANGED <<cvars, hvars, vpc, vvars, session, frames, svars, input, output>>

\* the frames a remote may write: valid ones, and ones parse refuses
ValidFrames ==
    {[kind |-> "valid", message |-> m, bytes |-> Message_bytes(m)] :
        m \in {[magic |-> MAGIC_MAIN, command |-> [NAME |-> "verack"]],
               [magic |-> MAGIC_MAIN, command |-> [NAME |-> "ping", nonce |-> U64(0)]],
               [magic |-> MAGIC_MAIN,
                command |-> [NAME |-> "getheaders", version |-> <<4477, 1>>,
                             block_locator_hashes |-> <<>>,
                             hash_stop |-> [i \in 1 .. 32 |-> 0]]]}}
RefusedFrames ==
    {[kind |-> "InvalidMagicBytes", message |-> None,
      bytes |-> Frame(MAGIC_NAMECOIN, name([NAME |-> "verack"]), 0, checksum(<<>>), <<>>)],
     [kind |-> "InvalidChecksum", message |-> None,
      bytes |-> Frame(MAGIC_MAIN, name([NAME |-> "ping"]), 8, <<0, 0, 0, 0>>,
                      to_le_bytes(U64(0)))],
     [kind |-> "UnknownMessage", message |-> None,
      bytes |-> Frame(MAGIC_MAIN, name([NAME |-> "mock"]), 0, checksum(<<>>), <<>>)]}

(***************************************************************************)
(* Script (src/src/script.rs): OP_CHECKMULTISIG.  A public key and a       *)
(* signature are kept symbolic: a public key is that of a key pair, a      *)
(* signature is made with a key pair over the transaction digest that      *)
(* checksig computes.                                                      *)
(***************************************************************************)
KeyPairs == 1 .. MaxKeys
PubKey(k) == [type |-> "pubkey", key |-> k]
Sig(k) == [type |-> "sig", key |-> k]
Blobs == {PubKey(k) : k \in KeyPairs} \cup {Sig(k) : k \in KeyPairs}

\* StackEntry
Array(v) == [tag |-> "Array", val |-> v]
Bool(b) == [tag |-> "Bool", val |-> b]
Number(n) == [tag |-> "Number", val |-> n]

\* crypto::check_signature(pub_key_str, sig_str, data): Ok(true) when
\* sig_str is the DER form of a signature of data that the key of
\* pub_key_str verifies; bytes that are not a signature, or not a public
\* key, give Err
check_signature(pub_key_str, sig_str) ==
    /\ pub_key_str.type = "pubkey"
    /\ sig_str.type = "sig"
    /\ sig_str.key = pub_key_str.key

\* Script::checksig(pub_key_str, sig_str): the hash type is taken off the
\* end of sig_str and the rest is checked against the transaction digest
checksig(pub_key_str, sig_str) == check_signature(pub_key_str, sig_str)

\* the while loop, lines 186-195: the index after the first entry of
\* pubkeys from pubkeys_index on for which checksig answers true, or
\* pubkeys_len
RECURSIVE next_pubkeys_index(_, _, _)
next_pubkeys_index(sig, pubkeys, pubkeys_index) ==
    IF pubkeys_index >= Len(pubkeys) THEN pubkeys_index
    ELSE IF checksig(sig, pubkeys[pubkeys_index + 1]) THEN pubkeys_index + 1
    ELSE next_pubkeys_index(sig, pubkeys, pubkeys_index + 1)

\* the for loop, lines 185-201, from signature i (0-based) on: what is
\* pushed
RECURSIVE check_sigs(_, _, _, _)
check_sigs(sigs, pubkeys, i, pubkeys_index) ==
    IF i >= Len(sigs) THEN Bool(TRUE)
    ELSE LET index1 == next_pubkeys_index(sigs[i + 1], pubkeys, pubkeys_index)
         IN  IF index1 = Len(pubkeys) /\ i < Len(sigs) - 1
             THEN Bool(FALSE)
             ELSE check_sigs(sigs, pubkeys, i + 1, index1)

\* pop n entries that must be arrays: the arrays in the order they were
\* pushed and the stack left, or None (unwrap() of an empty stack, an entry
\* that is no array)
pop_arrays(stack, n) ==
    IF n > Len(stack) THEN None
    ELSE LET top == SubSeq(stack, Len(stack) - n + 1, Len(stack))
         IN  IF \E j \in 1 .. n : top[j].tag # "Array" THEN None
             ELSE Some([arrays |-> [j \in 1 .. n |-> top[j].val],
                        stack |-> SubSeq(stack, 1, Len(stack) - n)])

\* Script::op_checkmultisig on `stack` (its top is its last entry): the
\* stack it leaves, or "panic"
op_checkmultisig(stack) ==
    IF stack = <<>> \/ stack[Len(stack)].tag # "Number" THEN "panic"
    ELSE
    LET pubkeys_len == stack[Len(stack)].val
        p == pop_arrays(Take(stack, Len(stack) - 1), pubkeys_len)
    IN  IF pubkeys_len <= 0 \/ p = None THEN "panic"
        ELSE
        LET pubkeys == unwrap(p).arrays
            s1 == unwrap(p).stack
        IN  IF s1 = <<>> \/ s1[Len(s1)].tag # "Number" THEN "panic"
            ELSE
            LET sigs_len == s1[Len(s1)].val
                q == pop_arrays(Take(s1, Len(s1) - 1), IF sigs_len > 0 THEN sigs_len ELSE 0)
            IN  IF q = None THEN "panic"
                ELSE
                LET sigs == unwrap(q).arrays
                    s2 == unwrap(q).stack
                IN  IF s2 = <<>> THEN "panic"
                    ELSE
                    LET unused == s2[Len(s2)]
                        should_panic ==
                            CASE unused.tag = "Bool" /\ unused.val = FALSE -> FALSE
                              [] unused.tag = "Array" -> unused.val # <<>>
                              [] OTHER -> TRUE
                    IN  IF should_panic THEN "panic"
                        ELSE Append(Take(s2, Len(s2) - 1),
                                    check_sigs(sigs, pubkeys, 0, 0))

\* the stack a script leaves for OP_CHECKMULTISIG: the unused element, the
\* signatures and their number, the public keys and their number
MultisigStack(unused, sigs, pubkeys) ==
    <<unused>> \o [i \in 1 .. Len(sigs) |-> Array(sigs[i])] \o <<Number(Len(sigs))>>
        \o [i \in 1 .. Len(pubkeys) |-> Array(pubkeys[i])] \o <<Number(Len(pubkeys))>>

\* OP_CHECKMULTISIG is executed
OpCheckMultisig ==
    /\ output = None
    /\ output' = Some(op_checkmultisig(
                        MultisigStack(input.unused, input.sigs, input.pubkeys)))
    /\ UNCHANGED <<cvars, hvars, vpc, vvars, session, rvars, svars, input>>

(***************************************************************************)
(* MerkleTree (src/src/merkle_tree.rs).  A node is a Hash32; the hash of   *)
(* the 64 bytes of two nodes is kept symbolic, as the hash of the pair.    *)
(***************************************************************************)
\* MerkleTree::new: the hashes of the elements
Leaves == {hash32(i) : i \in 1 .. MaxLeaves}

MerkleTree_concat(a, b) == hash32(<<a, b>>)

\* elements is 1-based here: elements[i + 1] is the code's elements[i]
layer_up(elements) ==
    LET elements_len == Len(elements)
        end == elements_len \div 2
        odd == (elements_len % 2) = 1
        new_elements == [i \in 1 .. end |->
                            MerkleTree_concat(elements[(i - 1) + 1], elements[(i - 1) + 2])]
    IN  IF odd
        THEN Append(new_elements,
                    MerkleTree_concat(elements[elements_len], elements[elements_len]))
        ELSE new_elements

RECURSIVE root_rec(_)
root_rec(elements) ==
    IF Len(elements) = 1 THEN elements[1] ELSE root_rec(layer_up(elements))

MerkleTree_root(elements) ==
    IF elements = <<>> THEN None ELSE Some(root_rec(elements))

\* the layer above the leaves and the root are computed
MerkleRoot ==
    /\ output = None
    /\ output' = Some([layer |-> layer_up(input), root |-> MerkleTree_root(input)])
    /\ UNCHANGED <<cvars, hvars, vpc, vvars, session, rvars, svars, input>>

(***************************************************************************)
(* Storage (src/src/storage.rs): the block index (a key-value store keyed  *)
(* by block hash) and the current block file.  current_file.file is the    *)
(* content of the file, which the code leaves to the file system.          *)
(***************************************************************************)
\* Block::bytes: the 80 header bytes, kept as one symbol, and the
\* transaction count of a block without transactions
Block_bytes(block) ==
    LET tx_count == VariableInteger_bytes(U64(0))
    IN  <<<<"BlockHeader", block.header>>>>
            \o [i \in 1 .. Len(tx_count) |-> <<"u8", tx_count[i]>>]

\* FilePos::write; written: the number of bytes write_all got onto the file
\* (all of them, or fewer and an error).  r is Ok(orig_pos) or
\* Err(FileOperation)
FilePos_write(fp, bytes, written) ==
    LET orig_pos == fp.pos
    IN  IF written < Len(bytes)
        THEN [fp |-> [fp EXCEPT !.file = fp.file \o Take(bytes, written)],
              r |-> None]
        ELSE [fp |-> [fp EXCEPT !.file = fp.file \o bytes,
                                !.pos = fp.pos + Len(bytes)],
              r |-> Some(orig_pos)]

\* DB::put: the record is written, or the write fails
db_put(db, key, value, put_ok) == IF put_ok THEN map_insert(db, key, value) ELSE db

\* Storage::store_block; get_ok: blocks.get_pinned returns Ok; written: see
\* FilePos_write; put_ok: blocks.put returns Ok
store_block(db, fp, block, get_ok, written, put_ok) ==
    LET key == Block_hash(block)
    IN  IF ~get_ok THEN [blocks |-> db, current_file |-> fp, r |-> "DBOperation"]
        ELSE IF key \in DOMAIN db
        THEN [blocks |-> db, current_file |-> fp, r |-> "AlreadyExists"]
        ELSE
        LET w == FilePos_write(fp, Block_bytes(block), written)
        IN  IF w.r = None
            THEN [blocks |-> db, current_file |-> w.fp, r |-> "FileOperation"]
            ELSE
            LET location == [name |-> fp.name, pos |-> unwrap(w.r)]
                block_index_record ==
                    [header |-> block.header, height |-> 0, tx_number |-> 0,
                     location |-> location]
            IN  [blocks |-> db_put(db, key, block_index_record, put_ok),
                 current_file |-> w.fp, r |-> "Ok"]

\* Storage::has_block, the index readable
has_block(db, hash) == hash \in DOMAIN db

\* one call of store_block.  output is the log of the calls: the block, the
\* result and the steps of the call that failed.  The outcome of a step
\* the call does not reach is not drawn.
StoreBlock(block, get_ok, written, put_ok) ==
    /\ Len(output) < MaxStores
    /\ \E r \in {store_block(blocks, current_file, block, get_ok, written, put_ok)} :
        LET reached_write == get_ok /\ ~has_block(blocks, Block_hash(block))
            failed == (IF ~get_ok THEN {"get"} ELSE {})
                      \cup (IF reached_write /\ written < Len(Block_bytes(block))
                            THEN {"write"} ELSE {})
                      \cup (IF r.r = "Ok" /\ ~put_ok THEN {"put"} ELSE {})
        IN  /\ reached_write \/ written = Len(Block_bytes(block))
            /\ r.r = "Ok" \/ put_ok
            /\ blocks' = r.blocks
            /\ current_file' = r.current_file
            /\ output' = Append(output, [block |-> block, r |-> r.r, failed |-> failed])
    /\ UNCHANGED <<cvars, hvars, vpc, vvars, session, rvars, input>>

(***************************************************************************)
(* Script::exec (src/src/script.rs): the interpreter over the bytes of     *)
(* scriptSig and scriptPubKey, and the pay-to-script-hash second pass.     *)
(* The machine is the fields code, stack, pc and transaction_invalid of    *)
(* Script; panic tells that the thread panicked.                           *)
(***************************************************************************)
\* crypto::hash20, RIPEMD-160 of SHA-256: stood for by the length of the
\* payload and its bytes padded to 20, which tells apart the payloads of at
\* most 19 bytes
hash20(data) ==
    [i \in 1 .. 20 |-> IF i = 1 THEN Len(data)
                       ELSE IF i - 1 <= Len(data) THEN data[i - 1] ELSE 0]

Machine(code) ==
    [code |-> code, stack |-> <<>>, pc |-> 0, invalid |-> FALSE, panic |-> FALSE]
panicked(m) == [m EXCEPT !.panic = TRUE]
top(stack) == stack[Len(stack)]
pop(stack) == Take(stack, Len(stack) - 1)

op_push(m) ==
    LET size == m.code[m.pc + 1]
        pc == m.pc + 1
    IN  IF pc + size > Len(m.code) THEN panicked(m)
        ELSE [m EXCEPT !.stack = Append(@, Array(SubSeq(m.code, pc + 1, pc + size))),
                       !.pc = pc + size]

op_dup(m) ==
    IF m.stack = <<>> THEN panicked(m)
    ELSE [m EXCEPT !.stack = Append(@, top(@)), !.pc = @ + 1]

op_hash160(m) ==
    IF m.stack = <<>> \/ top(m.stack).tag # "Array" THEN panicked(m)
    ELSE [m EXCEPT !.stack = Append(pop(@), Array(hash20(top(@).val))), !.pc = @ + 1]

op_equal(m) ==
    IF Len(m.stack) < 2 THEN panicked(m)
    ELSE LET x1 == top(m.stack)
             x2 == top(pop(m.stack))
             to_add ==
                 CASE x1.tag = "Array" /\ x2.tag = "Array" -> Bool(x1.val = x2.val)
                   [] x1.tag = "Bool" /\ x2.tag = "Bool" -> Bool(x1.val = x2.val)
                   [] OTHER -> Bool(FALSE)
         IN  [m EXCEPT !.stack = Append(pop(pop(@)), to_add), !.pc = @ + 1]

op_verify(m) ==
    IF m.stack = <<>> THEN panicked(m)
    ELSE LET val == top(m.stack)
         IN  [m EXCEPT !.stack = pop(@),
                       !.pc = @ + 1,
                       !.invalid = CASE val.tag = "Array" -> val.val = <<>>
                                     [] val.tag = "Bool" -> val.val = FALSE
                                     [] OTHER -> FALSE]

\* pc -= 1, then op_equal and op_verify, which both add one.  With pc = 0
\* the subtraction panics (debug) or wraps (release), and then op_equal
\* panics on the empty stack.
op_equalverify(m) ==
    LET e == op_equal([m EXCEPT !.pc = @ - 1])
    IN  IF e.panic THEN e ELSE op_verify(e)

\* an entry that is no array is popped and nothing is pushed
op_checksig(m) ==
    IF m.stack = <<>> THEN panicked(m)
    ELSE LET pub_key_str == top(m.stack)
             s1 == pop(m.stack)
         IN  IF pub_key_str.tag # "Array" THEN [m EXCEPT !.stack = s1, !.pc = @ + 1]
             ELSE IF s1 = <<>> THEN panicked(m)
             ELSE LET sig_str == top(s1)
                  IN  IF sig_str.tag # "Array"
                      THEN [m EXCEPT !.stack = pop(s1), !.pc = @ + 1]
                      ELSE [m EXCEPT !.stack = Append(pop(s1),
                                         Bool(checksig(pub_key_str.val, sig_str.val))),
                                     !.pc = @ + 1]

op_checksigverify(m) ==
    LET c == op_checksig([m EXCEPT !.pc = @ - 1])
    IN  IF c.panic THEN c ELSE op_verify(c)

op_true(m) == [m EXCEPT !.stack = Append(@, Number(1)), !.pc = @ + 1]
op_false(m) == [m EXCEPT !.stack = Append(@, Array(<<>>)), !.pc = @ + 1]

\* Script::build_op_map and exec_next_instruction.  The four signature
\* opcodes 0xac .. 0xaf work on signatures and keys, which are symbolic
\* (checksig, op_checkmultisig); the byte scripts of ExecInputs hold none.
exec_next_instruction(m) ==
    IF m.pc >= Len(m.code) THEN panicked(m)
    ELSE LET opcode == m.code[m.pc + 1]
         IN  CASE opcode = 118 -> op_dup(m)
               [] opcode = 169 -> op_hash160(m)
               [] opcode = 135 -> op_equal(m)
               [] opcode = 105 -> op_verify(m)
               [] opcode = 136 -> op_equalverify(m)
               [] opcode = 172 -> op_checksig(m)
               [] opcode = 173 -> op_checksigverify(m)
               [] opcode = 81 -> op_true(m)
               [] opcode = 174 ->
                    LET r == op_checkmultisig(m.stack)
                    IN  [m EXCEPT !.stack = r, !.pc = @ + 1, !.panic = (r = "panic")]
               [] opcode = 175 ->
                    LET r == op_checkmultisig(m.stack)
                    IN  IF r = "panic" THEN panicked(m)
                        ELSE op_verify([m EXCEPT !.stack = r])
               [] opcode = 0 -> op_false(m)
               [] opcode >= 1 /\ opcode <= 75 -> op_push(m)
               [] OTHER -> panicked(m)

\* loop { exec_next_instruction; if exec_is_finished || transaction_invalid
\* { break } }: n is the machine after the instruction
RECURSIVE exec_loop(_)
exec_loop(m) ==
    CHOOSE r \in {IF n.panic \/ n.pc = Len(n.code) \/ n.invalid THEN n ELSE exec_loop(n) :
                      n \in {exec_next_instruction(m)}} : TRUE

is_pay_to_script_hash(txout_pkscript, block_timestamp) ==
    IF block_timestamp < 1333238400 THEN FALSE
    ELSE IF Len(txout_pkscript) # 23 THEN FALSE
    ELSE IF txout_pkscript[1] # 169 THEN FALSE
    ELSE IF txout_pkscript[2] # 20 THEN FALSE
    ELSE IF txout_pkscript[23] # 135 THEN FALSE
    ELSE TRUE

\* the while loop of pop_serialized_script from index on: the index and
\* the size it ends with.  size is set by a push opcode only and is kept
\* over every other opcode.
RECURSIVE scan(_, _, _)
scan(txin_scriptsig, index, size) ==
    IF index >= Len(txin_scriptsig) THEN [index |-> index, size |-> size]
    ELSE LET opcode == txin_scriptsig[index + 1]
             size1 == IF opcode >= 1 /\ opcode <= 75 THEN opcode ELSE size
         IN  scan(txin_scriptsig, index + 1 + size1, size1)

\* Script::pop_serialized_script: Ok(script) and the scriptSig left, or
\* Err(()); it reads txin_scriptsig[0] first, which panics on an empty one
pop_serialized_script(txin_scriptsig) ==
    IF txin_scriptsig = <<>>
    THEN [panic |-> TRUE, ok |-> FALSE, script |-> <<>>, txin_scriptsig |-> <<>>]
    ELSE LET s == scan(txin_scriptsig, 0, 0)
             start == s.index - s.size
             end == IF start > 0 THEN start - 1 ELSE start
         IN  IF s.index # Len(txin_scriptsig)
             THEN [panic |-> FALSE, ok |-> FALSE, script |-> <<>>,
                   txin_scriptsig |-> txin_scriptsig]
             ELSE [panic |-> FALSE, ok |-> TRUE, script |-> Drop(txin_scriptsig, start),
                   txin_scriptsig |-> Take(txin_scriptsig, end)]

\* the ScriptResult, with what tells the two passes apart: second says that
\* the second pass ran and code is the code of the last pass run
ScriptResult(m, second) ==
    [panic |-> m.panic, second |-> second, code |-> m.code,
     stack |-> m.stack, invalid |-> m.invalid]

\* Script::exec on a Script made by Script::new
exec(txin_scriptsig, txout_pkscript, block_timestamp) ==
    LET first == exec_loop(Machine(txin_scriptsig \o txout_pkscript))
    IN  IF first.panic THEN ScriptResult(first, FALSE)
        ELSE IF first.invalid \/ ~is_pay_to_script_hash(txout_pkscript, block_timestamp)
        THEN ScriptResult(first, FALSE)
        ELSE LET popped == pop_serialized_script(txin_scriptsig)
             IN  IF ~popped.ok THEN ScriptResult(panicked(first), FALSE)
                 ELSE ScriptResult(
                          exec_loop(Machine(popped.txin_scriptsig \o popped.script)),
                          TRUE)

\* the scripts and block times tried
SigBytes == {0, 1, 81, 105}
ScriptSigs == SeqsUpTo(SigBytes, MaxSig)
P2SH(h) == <<169, 20>> \o h \o <<135>>
PkScripts ==
    LET h == hash20(<<81>>)
    IN  {P2SH(h), P2SH(hash20(<<118>>)),
         <<118, 20>> \o h \o <<135>>,
         <<169, 20>> \o h \o <<136>>,
         <<169, 20>> \o h \o <<135, 81>>,
         <<169, 19>> \o Take(h, 19) \o <<118, 135>>,
         <<81>>}
BlockTimes == {1333238399, 1333238400}

\* exec is called
Exec ==
    /\ output = None
    /\ output' = Some(exec(input.sig, input.pk, input.block_timestamp))
    /\ UNCHANGED <<cvars, hvars, vpc, vvars, session, rvars, svars, input>>

\* the stack entries a script can make: pushes of at most MaxPush bytes,
\* the booleans of OP_EQUAL and the number of OP_TRUE
EntryBytes == {0, 1}
StackEntries ==
    {Array(v) : v \in SeqsUpTo(EntryBytes, MaxPush)}
        \cup {Bool(b) : b \in BOOLEAN} \cup {Number(1)}

\* OP_EQUAL is executed on a stack that ends with x2, x1
OpEqual ==
    /\ output = None
    /\ output' = Some(op_equal([Machine(<<135>>) EXCEPT
                                   !.stack = input.rest \o <<input.x2, input.x1>>]))
    /\ UNCHANGED <<cvars, hvars, vpc, vvars, session, rvars, svars, input>>
(***************************************************************************)
(* run(), lines 89-132: the state once the sessions and the Validator are  *)
(* spawned                                                                 *)
(***************************************************************************)
InitCoordinator ==
    /\ nodes = [i \in 1 .. NPeers |-> NodeHandle_new(i - 1, 0)]
    /\ known_active_nodes = {}
    /\ sync_node_id = None
    /\ download_queue = <<>>
    /\ cpc = "run"
    /\ ev = [src |-> "none", t |-> "none"]
    /\ out = <<>>
    /\ announced = {}
    /\ waited = {}
    /\ received = {}
    /\ requested = [p \in NodeIds |-> {}]
    /\ vstarted = FALSE

InitValider ==
    /\ vpc = "first"
    /\ vq = <<>>
    /\ waiting = <<>>
    /\ available = <<>>
    /\ next = None
    /\ timers = [h \in Hashes |-> 0]
    /\ stored = <<>>
    /\ waitlog = <<>>
    /\ upstream = <<>>

InitSession ==
    session = [p \in NodeIds |-> Node_new(p)]

\* Storage::new on an empty blocks directory: get_last_block_file_pos
\* creates blk00001.dat, and the index is empty
InitStorage ==
    /\ blocks = <<>>
    /\ current_file = [name |-> "blk00001.dat", file |-> <<>>, pos |-> 0]

\* no reader has read anything, no function has been applied
InitWire ==
    /\ tcp = <<>>
    /\ frames = <<>>
    /\ consumed = 0
    /\ reader_bytes = <<>>
    /\ remaining_bytes = 0
    /\ t_rc = <<>>
    /\ input = None
    /\ output = None

Init == InitCoordinator /\ InitValider /\ InitSession /\ InitWire /\ InitStorage

Next ==
    \/ \E p \in NodeIds : Connected(p)
    \/ \E p \in NodeIds : \E addrs \in AddrLists : Addrs(p, addrs)
    \/ \E p \in NodeIds : \E k \in 0 .. Min(MaxList, NHdr - Cardinality(announced)) :
           Headers(p, ChainSegment(k))
    \/ \E p \in NodeIds : \E block \in Blocks : Block(p, block)
    \/ \E p \in NodeIds : ConnectionClosed(p)
    \/ \E h \in Hashes : Timeout(h)
    \/ \E h \in Hashes : Store(h)
    \/ ValiderExit

Spec == Init /\ [][Next]_vars

NextValider ==
    \/ \E hs \in SeqsUpTo(HdrIds, MaxList) :
           SendWait([i \in 1 .. Len(hs) |-> BlockHeader_hash(hs[i])])
    \/ \E block \in Blocks : SendValidate(block)
    \/ ValiderFirst
    \/ ValiderRecv
    \/ \E h \in Hashes : TimerFires(h)

SpecValider == Init /\ [][NextValider]_vars

\* The Validator thread blocks in recv() and takes what is on its channel; a
\* timer thread sleeps two seconds and sends.
SpecValiderLive ==
    /\ SpecValider
    /\ WF_vars(ValiderFirst)
    /\ WF_vars(ValiderRecv)
    /\ \A h \in Hashes : WF_vars(TimerFires(h))

NextSession ==
    \/ \E p \in NodeIds : SessionRun(p)
    \/ \E p \in NodeIds : \E m \in RemoteMessages \cup Commands : SessionRecv(p, m)
    \/ \E p \in NodeIds : SessionConnectFails(p)
    \/ \E p \in NodeIds : ReaderEof(p)
    \/ \E p \in NodeIds : ReaderError(p)

SpecSession == Init /\ [][NextSession]_vars

\* A bulk announcement: the sync peer serves BulkLen headers in one list and
\* every peer delivers the blocks it was asked for, in the order asked.
NextRequested(p, k) ==
    /\ BlockHeader_hash(k) \in requested[p]
    /\ \A j \in 1 .. (k - 1) : BlockHeader_hash(j) \notin requested[p]

NextBulk ==
    \/ \E p \in NodeIds : Connected(p)
    \/ \E p \in NodeIds : Addrs(p, {})
    \/ \E p \in NodeIds : announced = {} /\ Headers(p, ChainSegment(BulkLen))
    \/ \E p \in NodeIds : \E k \in 1 .. BulkLen :
           NextRequested(p, k) /\ Block(p, [header |-> k])
    \/ \E p \in NodeIds : ConnectionClosed(p)

SpecBulk == Init /\ [][NextBulk]_vars

\* Full lists: the sync peer serves a headers list of MAX_HEADERS entries, or
\* of one less, and the peers deliver the first blocks they were asked for
NextFull ==
    \/ \E p \in NodeIds : Connected(p)
    \/ \E p \in NodeIds : Addrs(p, {})
    \/ \E p \in NodeIds : \E k \in {MAX_HEADERS - 1, MAX_HEADERS} :
           announced = {} /\ Headers(p, ChainSegment(k))
    \/ \E p \in NodeIds : \E k \in HdrIds :
           NextRequested(p, k) /\ Block(p, [header |-> k])
    \/ \E p \in NodeIds : ConnectionClosed(p)

SpecFull == Init /\ [][NextFull]_vars

\* VarInt: a number is encoded and decoded again
InitVarInt ==
    /\ InitCoordinator /\ InitValider /\ InitSession /\ InitStorage
    /\ tcp = <<>> /\ frames = <<>> /\ consumed = 0
    /\ reader_bytes = <<>> /\ remaining_bytes = 0 /\ t_rc = <<>>
    /\ input \in U64Values
    /\ output = None

NextVarInt == VarIntRoundTrip

SpecVarInt == InitVarInt /\ [][NextVarInt]_vars

\* Framing: a message is serialized and parse is applied to a prefix of the
\* frame, the whole frame included
Messages == [magic : {MAGIC_MAIN, MAGIC_TESTNET3}, command : MessageCommands]

InitParse ==
    /\ InitCoordinator /\ InitValider /\ InitSession /\ InitStorage
    /\ tcp = <<>> /\ frames = <<>> /\ consumed = 0
    /\ reader_bytes = <<>> /\ remaining_bytes = 0 /\ t_rc = <<>>
    /\ \E message \in Messages :
       \E frame \in {Message_bytes(message)} :
       \E k \in 0 .. Len(frame) :
           input = [message |-> message, frame |-> frame, k |-> k]
    /\ output = None

NextParse == ParsePrefix

SpecParse == InitParse /\ [][NextParse]_vars

\* The reader on a stream of frames the remote has written, read in pieces
\* of any size the buffer allows
InitReader ==
    /\ InitCoordinator /\ InitValider /\ InitSession /\ InitStorage
    /\ frames \in SeqsUpTo(ValidFrames \cup RefusedFrames, MaxFrames)
    /\ tcp = concat([i \in 1 .. Len(frames) |-> frames[i].bytes])
    /\ consumed = 0
    /\ reader_bytes = <<>>
    /\ remaining_bytes = 0
    /\ t_rc = <<>>
    /\ input = None
    /\ output = None

NextReader == \E n \in 1 .. READ_BUFFER : Read(n)

SpecReader == InitReader /\ [][NextReader]_vars

\* OP_CHECKMULTISIG on the stacks a script can leave for it: M signatures
\* and N public keys, N >= 1, of any content
InitScript ==
    /\ InitCoordinator /\ InitValider /\ InitSession /\ InitStorage
    /\ tcp = <<>> /\ frames = <<>> /\ consumed = 0
    /\ reader_bytes = <<>> /\ remaining_bytes = 0 /\ t_rc = <<>>
    /\ \E pubkeys \in SeqsUpTo(Blobs, MaxKeys) \ {<<>>} :
       \E sigs \in SeqsUpTo(Blobs, MaxKeys) :
       \E unused \in {Array(<<>>), Bool(FALSE)} :
           input = [unused |-> unused, sigs |-> sigs, pubkeys |-> pubkeys]
    /\ output = None

NextScript == OpCheckMultisig

SpecScript == InitScript /\ [][NextScript]_vars

\* Merkle trees over at most MaxLeaves leaves
InitMerkle ==
    /\ InitCoordinator /\ InitValider /\ InitSession /\ InitStorage
    /\ tcp = <<>> /\ frames = <<>> /\ consumed = 0
    /\ reader_bytes = <<>> /\ remaining_bytes = 0 /\ t_rc = <<>>
    /\ input \in SeqsUpTo(Leaves, MaxLeaves)
    /\ output = None

NextMerkle == MerkleRoot

SpecMerkle == InitMerkle /\ [][NextMerkle]_vars

\* Storage: blocks are stored, one after the other, each step of a store
\* succeeding or failing
NextStore ==
    \E block \in Blocks : \E get_ok, put_ok \in BOOLEAN :
    \E written \in 0 .. Len(Block_bytes(block)) :
        StoreBlock(block, get_ok, written, put_ok)

SpecStore == Init /\ [][NextStore]_vars

\* Script::exec on the scripts of ScriptSigs and PkScripts
InitExec ==
    /\ InitCoordinator /\ InitValider /\ InitSession /\ InitStorage
    /\ tcp = <<>> /\ frames = <<>> /\ consumed = 0
    /\ reader_bytes = <<>> /\ remaining_bytes = 0 /\ t_rc = <<>>
    /\ \E sig \in ScriptSigs : \E pk \in PkScripts : \E t \in BlockTimes :
           input = [sig |-> sig, pk |-> pk, block_timestamp |-> t]
    /\ output = None

NextExec == Exec

SpecExec == InitExec /\ [][NextExec]_vars

\* OP_EQUAL on two entries of StackEntries
InitEqual ==
    /\ InitCoordinator /\ InitValider /\ InitSession /\ InitStorage
    /\ tcp = <<>> /\ frames = <<>> /\ consumed = 0
    /\ reader_bytes = <<>> /\ remaining_bytes = 0 /\ t_rc = <<>>
    /\ \E x1, x2 \in StackEntries : \E rest \in {<<>>, <<Number(1)>>} :
           input = [x1 |-> x1, x2 |-> x2, rest |-> rest]
    /\ output = None

NextEqual == OpEqual

SpecEqual == InitEqual /\ [][NextEqual]_vars

(***************************************************************************)
(* Sync progress: the Coordinator with the peers and the Validator around  *)
(* it.  Every peer that has a session completes its handshake and answers  *)
(* every getdata; the Validator hands a block on when it is the one        *)
(* awaited, and ends at valider.rs line 59 once nothing is awaited.        *)
(***************************************************************************)
\* the hashes the Validator has handed on for storage
Handed == {stored[i][1] : i \in 1 .. Len(stored)}

\* valider.rs lines 115-123: the awaited block is handed on
HandedOn(k) ==
    /\ vpc # "dead"
    /\ vstarted
    /\ BlockHeader_hash(k) \in (waited \cap received) \ Handed
    /\ \A j \in 1 .. (k - 1) : BlockHeader_hash(j) \in Handed
    /\ stored' = Append(stored, <<BlockHeader_hash(k), [header |-> k]>>)
    /\ UNCHANGED <<cvars, hvars, vpc, vq, waiting, available, next, timers,
                   waitlog, upstream, session, wvars>>

\* valider.rs line 59, every awaited block having been handed on
ValiderDies == waited \subseteq Handed /\ ValiderExit

NextSync ==
    \/ \E p \in NodeIds : nodes[p + 1].reader /\ Connected(p)
    \/ \E p \in NodeIds : nodes[p + 1].reader /\ Addrs(p, {})
    \/ \E p \in NodeIds : \E k \in 0 .. Min(MaxList, NHdr - Cardinality(announced)) :
           sync_node_id = Some(p) /\ Headers(p, ChainSegment(k))
    \/ \E p \in NodeIds : \E k \in HdrIds :
           NextRequested(p, k) /\ Block(p, [header |-> k])
    \/ \E h \in Hashes : vpc # "dead" /\ h \notin received /\ Timeout(h)
    \/ \E k \in HdrIds : HandedOn(k)
    \/ ValiderDies

SpecSync == Init /\ [][NextSync]_vars

\* The threads run: a session completes its handshake and relays the addr
\* message, a peer delivers the blocks it is asked for, the Validator takes
\* its steps.
SpecSyncLive ==
    /\ SpecSync
    /\ \A p \in NodeIds : WF_vars(nodes[p + 1].reader /\ Connected(p))
    /\ \A p \in NodeIds : WF_vars(nodes[p + 1].reader /\ Addrs(p, {}))
    /\ \A p \in NodeIds :
           WF_vars(\E k \in HdrIds : NextRequested(p, k) /\ Block(p, [header |-> k]))
    /\ \A k \in HdrIds : WF_vars(HandedOn(k))
    /\ WF_vars(ValiderDies)

\* Full lists under fair scheduling: a session whose reader runs reports
\* Connected, the remote answers getaddr, and a peer delivers the blocks it
\* was asked for.  Nothing obliges a remote to send headers it was not
\* asked for.
SpecFullLive ==
    /\ SpecFull
    /\ \A p \in NodeIds : WF_vars(nodes[p + 1].reader /\ Connected(p))
    /\ \A p \in NodeIds : WF_vars(nodes[p + 1].reader /\ Addrs(p, {}))
    /\ \A p \in NodeIds :
           WF_vars(\E k \in HdrIds : NextRequested(p, k) /\ Block(p, [header |-> k]))

(***************************************************************************)
(* Properties                                                              *)
(***************************************************************************)
InFlight(p) == SeqToSet(nodes[p + 1].download_current)
Outstanding == announced \ received

\* C1: no loss of work.  In every Coordinator state, every hash pushed on
\* download_queue from a received header whose block has not been received
\* is in download_queue or in the download_current of some peer entry.
C1_NoLossOfWork ==
    \A h \in Outstanding :
        Contains(download_queue, h) \/ \E p \in NodeIds : h \in InFlight(p)

\* C2: for every peer entry, download_current holds exactly the hashes sent
\* to that peer in getdata whose block has not come back from it.
C2_InFlightIsRequested ==
    \A p \in NodeIds : InFlight(p) = requested[p]

\* the entry handle_valider_message finds for `hash` (iter().find)
holder(ns, hash) ==
    LET holders == {i \in 1 .. Len(ns) : NodeHandle_is_downloading(ns[i], hash)}
    IN  IF holders = {} THEN None
        ELSE Some(ns[CHOOSE i \in holders : \A j \in holders : i <= j].id)

Sent(o, p, t) == \E i \in 1 .. Len(o) : o[i].kind = "cmd" /\ o[i].to = p /\ o[i].t = t

\* C3 (its finite-run part): when the Validator's Timeout(h) reaches the
\* Coordinator and h was sent in a getdata to peer p which has not delivered
\* the block, the Coordinator sends Kill to p.
C3_TimeoutKillsSilentPeer ==
    [][\A h \in Hashes : \A p \in NodeIds :
          (Timeout(h) /\ h \in requested[p]) => Sent(out', p, "Kill")]_vars

\* the hashes of the getdata messages of o, in the order sent
RECURSIVE getdata_concat(_)
getdata_concat(o) ==
    IF o = <<>> THEN <<>>
    ELSE (IF Head(o).kind = "cmd" /\ Head(o).t = "getdata" THEN Head(o).arg ELSE <<>>)
             \o getdata_concat(Tail(o))

\* Timeout(h) is handled while the entry of peer p is the one found holding h
TimeoutWithHolder(h, p) == Timeout(h) /\ holder(nodes, h) = Some(p)

\* the peer is sent Kill first, its download_current is emptied and put, whole,
\* in front of what was queued; what is re-dispatched is taken from that front
KilledAndRequeued(p) ==
    /\ out' # <<>>
    /\ out'[1] = Cmd(nodes[p + 1], "Kill", <<>>)
    /\ nodes'[p + 1].download_current = <<>>
    /\ getdata_concat(out') \o download_queue'
           = nodes[p + 1].download_current \o download_queue

\* a session is spawned under the same id on a new command channel
Respawned(p) ==
    /\ Len(out') >= 2
    /\ out'[2] = Spawn(nodes'[p + 1])
    /\ nodes'[p + 1].id = p
    /\ nodes'[p + 1].command_sender # nodes[p + 1].command_sender
    /\ nodes'[p + 1].state = "CONNECTING"

\* download work is re-broadcast: a download peer that is ready for work
\* (not the sync peer, UPDATING_BLOCKS, nothing in flight) is sent the front
\* of the queue
ReadyPeers == {q \in NodeIds : /\ sync_node_id # Some(q)
                               /\ nodes'[q + 1].state = "UPDATING_BLOCKS"
                               /\ nodes'[q + 1].download_current = <<>>}
Rebroadcast(p) ==
    ReadyPeers # {} =>
        /\ Len(out') >= 3
        /\ out'[3].kind = "cmd" /\ out'[3].t = "getdata"
        /\ out'[3].to \in ReadyPeers
        /\ out'[3].arg = SubSeq(nodes[p + 1].download_current \o download_queue, 1,
                                Min(MAX_DOWNLOADING_BLOCKS,
                                    Len(nodes[p + 1].download_current \o download_queue)))

StoredHashes == [i \in 1 .. Len(stored) |-> stored[i][1]]

\* C5: block ordering.  At every moment the hashes handed on for storage
\* are a prefix of the concatenation, in arrival order, of the hash lists of
\* the Wait messages received, whatever the order the blocks arrive in.
C5_StoreOrder ==
    /\ Len(stored) <= Len(waitlog)
    /\ StoredHashes = SubSeq(waitlog, 1, Len(stored))
    /\ \A i \in 1 .. Len(stored) : Block_hash(stored[i][2]) = stored[i][1]

\* two different blocks have been stored while a block that arrived ahead
\* of its turn was being held
C5_Witness ==
    /\ Len(stored) >= 2
    /\ stored[1][1] # stored[2][1]
    /\ \E h \in DOMAIN available : Contains(waiting, h)

\* C6: the Wait message that contains h reaches the Validator before the
\* Validate message of the block with hash h: whenever the Coordinator
\* sends Validate(block), a Wait containing the block's hash has been sent.
C6_WaitBeforeValidate ==
    \A i \in 1 .. Len(out) :
        (out[i].kind = "valider" /\ out[i].t = "Validate")
            => Block_hash(out[i].arg) \in waited

\* C7: sync-peer election.  The first peer whose Addrs is handled while it
\* is in UPDATING_PEERS becomes the sync peer and is sent exactly one
\* message, getheaders with the locator [genesis hash] and the zero stop
\* hash; a peer whose Addrs is handled later becomes a download peer
\* (UPDATING_BLOCKS) and no getheaders is sent; an election is never undone
\* or repeated.
C7_SyncPeerElection ==
    [][/\ \A p \in NodeIds : \A addrs \in AddrLists :
             (Addrs(p, addrs) /\ nodes[p + 1].state = "UPDATING_PEERS") =>
                 /\ nodes'[p + 1].state = "UPDATING_BLOCKS"
                 /\ IF sync_node_id = None
                    THEN /\ sync_node_id' = Some(p)
                         /\ out' = <<Cmd(nodes'[p + 1], "getheaders",
                                         [version |-> 70013,
                                          locator |-> <<genesis_hash>>,
                                          stop |-> ZeroHash])>>
                    ELSE /\ sync_node_id' = sync_node_id
                         /\ \A q \in NodeIds : ~Sent(out', q, "getheaders")
       /\ sync_node_id # None => sync_node_id' = sync_node_id
       /\ sync_node_id' # sync_node_id =>
             \E p \in NodeIds : \E addrs \in AddrLists : Addrs(p, addrs)]_vars

\* an Addrs event has just made a second peer a download peer
C7_Witness ==
    /\ ev.t = "Addrs"
    /\ sync_node_id # None
    /\ \E q \in NodeIds : /\ Some(q) # sync_node_id
                          /\ nodes[q + 1].state = "UPDATING_BLOCKS"
    /\ \A q \in NodeIds : ~Sent(out, q, "getheaders")

Count(s, x) == Cardinality({i \in 1 .. Len(s) : s[i] = x})

\* C8: the connection state of a session changes only CLOSED -> VER_SENT
\* when the version is sent, VER_SENT -> VERACK_RECEIVED on verack,
\* VER_SENT -> VER_RECEIVED on version, VERACK_RECEIVED -> ESTABLISHED on
\* version and VER_RECEIVED -> ESTABLISHED on verack; and every received
\* version is answered with a verack.
C8_HandshakeTransitions ==
    [][\A p \in NodeIds :
          LET old == session[p]
              new == session'[p]
              got(t) == new.inbox = Append(old.inbox, t)
          IN  /\ new.state # old.state =>
                     \/ /\ old.state = "CLOSED" /\ new.state = "VER_SENT"
                        /\ new.stream = Append(old.stream, "version")
                     \/ old.state = "VER_SENT" /\ new.state = "VERACK_RECEIVED"
                            /\ got("verack")
                     \/ old.state = "VER_SENT" /\ new.state = "VER_RECEIVED"
                            /\ got("version")
                     \/ old.state = "VERACK_RECEIVED" /\ new.state = "ESTABLISHED"
                            /\ got("version")
                     \/ old.state = "VER_RECEIVED" /\ new.state = "ESTABLISHED"
                            /\ got("verack")
              /\ got("version") => new.stream = Append(old.stream, "verack")]_vars

\* both orders have happened: one session got verack then version, the
\* other version then verack, and both are ESTABLISHED
C8_Witness ==
    /\ session[0].state = "ESTABLISHED"
    /\ session[0].inbox = <<"verack", "version">>
    /\ session[1].state = "ESTABLISHED"
    /\ session[1].inbox = <<"version", "verack">>
    /\ Count(session[0].stream, "verack") = 1
    /\ Count(session[1].stream, "verack") = 1

\* C9: a session that has reached ESTABLISHED, in either order of the
\* remote's verack and version, has sent exactly one Connected to the
\* Coordinator.
C9_ConnectedOnceEstablished ==
    \A p \in NodeIds :
        session[p].state = "ESTABLISHED" => Count(session[p].responses, "Connected") = 1

\* C10: every peer entry's download_current holds at most
\* MAX_DOWNLOADING_BLOCKS hashes and no getdata carries more than
\* MAX_DOWNLOADING_BLOCKS inventory vectors.
C10_InFlightBound ==
    /\ \A p \in NodeIds : Len(nodes[p + 1].download_current) <= MAX_DOWNLOADING_BLOCKS
    /\ \A i \in 1 .. Len(out) :
           (out[i].kind = "cmd" /\ out[i].t = "getdata")
               => Len(out[i].arg) <= MAX_DOWNLOADING_BLOCKS

\* a peer was given work from a queue longer than MAX_DOWNLOADING_BLOCKS:
\* it holds the first 16 and the rest is still queued
C10_Witness ==
    /\ download_queue # <<>>
    /\ \E p \in NodeIds :
          /\ Len(nodes[p + 1].download_current) = MAX_DOWNLOADING_BLOCKS
          /\ \E i \in 1 .. Len(out) :
                /\ out[i].kind = "cmd" /\ out[i].t = "getdata" /\ out[i].to = p
                /\ out[i].arg = nodes[p + 1].download_current

\* C11: a running session whose connection the remote has closed (a read
\* returned 0 bytes), or on which a read or a write has failed, has sent
\* ConnectionClosed to the Coordinator.
C11_ClosedSessionEmitsConnectionClosed ==
    \A p \in NodeIds :
        (session[p].pc # "new" /\ (session[p].conn # "open" \/
             (session[p].pc = "dead" /\ session[p].inbox # <<>>
                 /\ session[p].inbox[Len(session[p].inbox)] = "SendMessage")))
            => Count(session[p].responses, "ConnectionClosed") >= 1

\* C12: whenever ConnectionClosed is handled for a peer, whatever the state
\* (before a sync peer is elected too), the peer is replaced: its in-flight
\* hashes are re-queued, a new session is spawned under the same id when an
\* address for it can be had, and the Coordinator goes on processing events.
C12_ConnectionClosedReplacesPeer ==
    [][\A p \in NodeIds :
          ConnectionClosed(p) =>
              /\ KilledAndRequeued(p)
              /\ \/ Respawned(p)
                 \/ known_active_nodes = {} /\ Len(out') = 1
              /\ cpc' = "run"]_vars

\* the timers armed for h and the Timeout(h) messages they have put on the
\* Validator's channel
PendingTimeouts(h) ==
    timers[h] + Len(SelectSeq(vq, LAMBDA m : m.t = "Timeout" /\ m.arg = h))

Awaiting(h) == vpc = "wait" /\ next = Some(h)

\* C13: while h, taken from the head of waiting, is awaited, every Timeout
\* of the timer for h is passed on to the Coordinator as Timeout(h) and the
\* timer is armed again, so that a timer for h is always pending and
\* Timeout(h) is emitted once more, time after time, until the block of h
\* arrives; a Wait or a Validate received meanwhile is added to waiting or
\* to available.
C13_TimeoutRepeats ==
    /\ [](\A h \in Hashes : Awaiting(h) => PendingTimeouts(h) >= 1)
    /\ [][\A h \in Hashes :
            (Awaiting(h) /\ ValiderRecv) =>
                CASE Head(vq).t = "Timeout" /\ Head(vq).arg = h ->
                         /\ upstream' = Append(upstream, ValiderResponse("Timeout", h))
                         /\ timers'[h] = timers[h] + 1
                         /\ Awaiting(h)'
                  [] Head(vq).t = "Timeout" /\ Head(vq).arg # h ->
                         UNCHANGED <<upstream, timers, next>>
                  [] Head(vq).t = "Wait" ->
                         /\ waiting' = waiting \o Head(vq).arg
                         /\ UNCHANGED <<upstream, available>> /\ Awaiting(h)'
                  [] Head(vq).t = "Validate" ->
                         /\ UNCHANGED upstream
                         /\ Block_hash(Head(vq).arg) # h =>
                                /\ available' = map_insert(available,
                                       Block_hash(Head(vq).arg), Head(vq).arg)
                                /\ UNCHANGED waiting /\ Awaiting(h)']_vars
    /\ \A h \in Hashes : \A n \in 0 .. (MaxTimeouts - 1) :
           (Awaiting(h) /\ Len(upstream) = n)
               ~> (~Awaiting(h) \/ Len(upstream) > n)

\* Timeout(h) has been emitted twice for the same awaited h, while a Wait
\* and the block of another hash were taken in
C13_Witness ==
    /\ \E h \in Hashes :
           /\ Awaiting(h)
           /\ upstream = <<ValiderResponse("Timeout", h), ValiderResponse("Timeout", h)>>
           /\ h \notin DOMAIN available
    /\ waiting # <<>>
    /\ DOMAIN available # {}

\* the width of the shortest encoding of a u64
MinimalLen(v) ==
    IF v[2] = 0 /\ v[3] = 0 /\ v[4] = 0
    THEN IF v[1] < 253 THEN 1 ELSE 3
    ELSE IF v[3] = 0 /\ v[4] = 0 THEN 5 ELSE 9

\* C17: VarInt round trip.  Decoding the encoding of v gives v back, with
\* the length of the shortest form for v: 1 below 0xFD, 3 up to 0xFFFF, 5 up
\* to 0xFFFFFFFF, 9 above.
C17_VarIntRoundTrip ==
    (input \in U64Values /\ output # None) =>
        /\ unwrap(output) = <<input, MinimalLen(input)>>
        /\ Len(VariableInteger_bytes(input)) = MinimalLen(input)

\* 0xFFFFFFFF, the largest number of the five-byte form, has been through
\* the round trip
C17_Witness ==
    /\ input \in U64Values /\ output # None
    /\ input = <<65535, 65535, 0, 0>>
    /\ unwrap(output)[2] = 5

\* C16: for every message type, length() is the number of bytes of bytes(),
\* so that the length field of the frame is the size of the payload, and
\* parsing the frame of m gives m back with consumed = 24 + payload length.
C16_SerializeRoundTrip ==
    (output # None /\ input.k = Len(input.frame)) =>
        LET command == input.message.command
        IN  /\ command_length(command) = Len(command_bytes(command))
            /\ unwrap(output) = Ok(input.message, 24 + Len(command_bytes(command)))

\* C16 for every message type but getblocks
C16_RoundTripButGetBlocks ==
    (output # None /\ input.k = Len(input.frame)
         /\ input.message.command.NAME # "getblocks") =>
        LET command == input.message.command
        IN  /\ command_length(command) = Len(command_bytes(command))
            /\ unwrap(output) = Ok(input.message, 24 + Len(command_bytes(command)))

\* the frame's length field is the length of its payload
ValidFrame(message) ==
    command_length(message.command) = Len(command_bytes(message.command))

\* C18: of a valid frame of L = 24 + payload length bytes, parse answers to
\* the first k bytes Partial(24 - k) when k < 20, Partial(L - k) when
\* 20 <= k < L, and the message with consumed = L when k = L.
C18_PartialNeeds ==
    (output # None /\ ValidFrame(input.message)) =>
        LET L == 24 + Len(command_bytes(input.message.command))
            k == input.k
        IN  unwrap(output) =
                IF k < 20 THEN Partial(24 - k)
                ELSE IF k < L THEN Partial(L - k)
                ELSE Ok(input.message, L)

\* parse was given 22 bytes of a frame whose payload is not empty: the
\* length field is readable and more than the rest of the header is needed
C18_Witness ==
    /\ output # None
    /\ ValidFrame(input.message)
    /\ input.k = 22
    /\ unwrap(output).t = "Partial"
    /\ unwrap(output).n > 2

\* the number of bytes of the first i frames of the stream
RECURSIVE EndOf(_)
EndOf(i) == IF i = 0 THEN 0 ELSE EndOf(i - 1) + Len(frames[i].bytes)

\* the messages of the valid frames that lie whole in the bytes read so far,
\* in stream order
Delivered ==
    LET whole == {i \in 1 .. Len(frames) : EndOf(i) <= consumed}
        idx == SelectSeq([i \in 1 .. Len(frames) |-> i],
                         LAMBDA i : i \in whole /\ frames[i].kind = "valid")
    IN  [j \in 1 .. Len(idx) |-> frames[idx[j]].message]

\* C14: a frame parse refuses (InvalidMagicBytes, InvalidChecksum,
\* UnknownMessage) costs its own bytes only: every valid frame of the
\* stream, those of the same read included, is parsed and dispatched.
C14_RefusedFrameCostsItselfOnly == t_rc = Delivered

\* C15: on a stream of valid frames cut into reads at any byte, of at most
\* 100 bytes each, every frame is dispatched once and in stream order, and
\* when a read is done all the frames that lie whole in what was read have
\* been dispatched.
C15_FramesDispatchedInOrder ==
    (\A i \in 1 .. Len(frames) : frames[i].kind = "valid") => t_rc = Delivered

\* the first of two valid frames has been dispatched and a read has ended
\* inside the second, whose first bytes wait in the buffer for the rest
C15_Witness ==
    /\ Len(frames) = 2
    /\ \A i \in 1 .. 2 : frames[i].kind = "valid"
    /\ frames[1] # frames[2]
    /\ t_rc = <<frames[1].message>>
    /\ consumed > EndOf(1)
    /\ reader_bytes = SubSeq(frames[2].bytes, 1, consumed - EndOf(1))
    /\ remaining_bytes = Len(tcp)

\* C19: every Store(h, b) the Validator emits has h = hash(b), the
\* byte-reversed double SHA-256 of the header of b, and h is the hash that
\* was taken from the head of waiting at that turn.
C19_StoredBlockMatchesHash ==
    \A i \in 1 .. Len(stored) :
        /\ stored[i][1] = reverse(hash32(stored[i][2].header))
        /\ i <= Len(waitlog) /\ stored[i][1] = waitlog[i]

\* the same hash was waited for twice and its block stored at both turns,
\* and a block of another hash was stored too
C19_Witness ==
    /\ \E i, j \in 1 .. Len(stored) : i < j /\ stored[i] = stored[j]
    /\ \E i, j \in 1 .. Len(stored) : stored[i][1] # stored[j][1]

\* the signature is one that the public key verifies
Verifies(sig, pubkey) == check_signature(pubkey, sig)

\* every signature, in order, is verified by a public key, the public keys
\* taken in order and each one later than that of the signature before
OrderedMatch(sigs, pubkeys) ==
    \E f \in [1 .. Len(sigs) -> 1 .. Len(pubkeys)] :
        /\ \A i, j \in 1 .. Len(sigs) : i < j => f[i] < f[j]
        /\ \A i \in 1 .. Len(sigs) : Verifies(sigs[i], pubkeys[f[i]])

\* C20: OP_CHECKMULTISIG pushes true if and only if each of the M
\* signatures, in order, verifies against one of the N public keys, the
\* public keys consumed in order; it pushes false otherwise.
C20_MultisigIffOrderedMatch ==
    (output # None /\ unwrap(output) # "panic") =>
        LET pushed == unwrap(output)[Len(unwrap(output))]
        IN  /\ pushed \in {Bool(TRUE), Bool(FALSE)}
            /\ pushed = Bool(TRUE) <=> OrderedMatch(input.sigs, input.pubkeys)

\* the hashes of a headers list, in list order
hashes_of(headers) == [i \in 1 .. Len(headers) |-> BlockHeader_hash(headers[i])]

\* the messages of o written on the Validator's channel, in order
ToValider(o) == SelectSeq(o, LAMBDA m : m.kind = "valider")

GetHeadersOf(o) == SelectSeq(o, LAMBDA m : m.kind = "cmd" /\ m.t = "getheaders")

\* the one getheaders that asks the sync peer for what follows the list
FurtherGetHeaders(p, k) ==
    <<Cmd(nodes'[p + 1], "getheaders",
          [version |-> 70013,
           locator |-> <<BlockHeader_hash(ChainSegment(k)[k])>>,
           stop |-> ZeroHash])>>

C28_NonSyncHeadersIgnored ==
    [][\A p \in NodeIds : \A k \in 0 .. MaxList :
          (/\ sync_node_id # Some(p)
           /\ ev'.t = "Headers"
           /\ Headers(p, ChainSegment(k))) =>
              /\ UNCHANGED <<download_queue, nodes, sync_node_id, known_active_nodes>>
              /\ out' = <<>>
              /\ cpc' = "run"]_vars

\* C28 where a sync peer has been elected
C28_NonSyncHeadersIgnoredOnceElected ==
    [][\A p \in NodeIds : \A k \in 0 .. MaxList :
          (/\ sync_node_id # None
           /\ sync_node_id # Some(p)
           /\ ev'.t = "Headers"
           /\ Headers(p, ChainSegment(k))) =>
              /\ UNCHANGED <<download_queue, nodes, sync_node_id, known_active_nodes>>
              /\ out' = <<>>
              /\ cpc' = "run"]_vars

\* the getdata commands of o, in order
GetDataOf(o) == SelectSeq(o, LAMBDA m : m.kind = "cmd" /\ m.t = "getdata")

\* what Block(block) from peer p does to p's entry and to the queue, the
\* in-flight set taken as the set `left` once the block is marked
BlockMarkedAndNext(p, block, left) ==
    /\ \A q \in NodeIds \ {p} : nodes'[q + 1] = nodes[q + 1]
    /\ IF GetDataOf(out') = <<>>
       THEN /\ SeqToSet(nodes'[p + 1].download_current) = left
            /\ download_queue' = download_queue
       ELSE /\ left = {}
            /\ download_queue # <<>>
            /\ Len(GetDataOf(out')) = 1
            /\ GetDataOf(out')[1].to = p
            /\ nodes'[p + 1].download_current = GetDataOf(out')[1].arg
            /\ GetDataOf(out')[1].arg \o download_queue' = download_queue

\* C29 as stated: on Block(b) from peer p, hash(b) is removed from p's
\* in-flight set if present and the other entries stay, Validate(b) is sent
\* to the Validator whether or not b had been requested from p, and
\* download_next is invoked for p, which sends a new getdata only if p's
\* in-flight set is now empty and download_queue is not.
C29_BlockMarkedValidatedNext ==
    [][\A p \in NodeIds : \A block \in Blocks :
          (ev'.t = "Block" /\ Block(p, block)) =>
              /\ ToValider(out') = <<VMsg("Validate", block)>>
              /\ BlockMarkedAndNext(p, block, InFlight(p) \ {Block_hash(block)})]_vars

\* C29 while the Validator's thread runs and hash(b) is not twice in p's
\* download_current
C29_BlockMarkedValidatedNextOnce ==
    [][\A p \in NodeIds : \A block \in Blocks :
          (/\ vpc # "dead"
           /\ Count(nodes[p + 1].download_current, Block_hash(block)) <= 1
           /\ ev'.t = "Block"
           /\ Block(p, block)) =>
              /\ ToValider(out') = <<VMsg("Validate", block)>>
              /\ BlockMarkedAndNext(p, block, InFlight(p) \ {Block_hash(block)})]_vars

\* C30: peer identifiers are positions in state.nodes: in every reachable
\* state nodes[i].id = i, the number of entries is the one of startup, and
\* a replacement session is spawned under the id of the peer that was just
\* sent Kill, on the channel of that peer's entry.
C30_PeerIdsArePositions ==
    /\ Len(nodes) = NPeers
    /\ \A i \in 1 .. Len(nodes) : nodes[i].id = i - 1
    /\ \A j \in 1 .. Len(out) :
           out[j].kind = "spawn" =>
               /\ j > 1
               /\ out[j - 1].kind = "cmd" /\ out[j - 1].t = "Kill"
               /\ out[j].to = out[j - 1].to
               /\ out[j].to \in NodeIds
               /\ out[j].chan = nodes[out[j].to + 1].command_sender
               /\ out[j].chan # out[j - 1].chan

\* the session of peer 1 has just been replaced
C30_Witness ==
    /\ Len(out) >= 2
    /\ out[1].kind = "cmd" /\ out[1].t = "Kill" /\ out[1].to = 1
    /\ out[2].kind = "spawn" /\ out[2].to = 1
    /\ nodes[2].id = 1 /\ nodes[2].command_sender = 1

\* C25: a protocol message other than version/verack that arrives before
\* the session is ESTABLISHED leaves the handshake state unchanged and does
\* not terminate the session: a version/verack arriving afterwards still
\* completes the handshake.
C25_EarlyMessageTolerated ==
    [][\A p \in NodeIds :
          LET old == session[p]
              new == session'[p]
          IN  (/\ old.pc = "loop"
               /\ old.state # "ESTABLISHED"
               /\ \E t \in {"ping", "block"} : new.inbox = Append(old.inbox, t)) =>
                  /\ new.state = old.state
                  /\ new.pc = "loop"
                  /\ \A m \in RemoteMessages :
                         m.t \in {"version", "verack"} =>
                             Node_handle_message(new, m) = 
                                 [Node_handle_message(old, m) EXCEPT
                                      !.inbox = new.inbox,
                                      !.stream = new.stream \o
                                          SubSeq(@, Len(old.stream) + 1, Len(@)),
                                      !.responses = new.responses \o
                                          SubSeq(@, Len(old.responses) + 1, Len(@))]]_vars

\* a ping came between the verack and the version of the remote, and the
\* session is ESTABLISHED, the ping answered
C25_Witness ==
    /\ session[0].inbox = <<"verack", "ping", "version">>
    /\ session[0].state = "ESTABLISHED"
    /\ session[0].pc = "loop"
    /\ session[0].stream = <<"version", "pong", "verack">>

\* the layer above e as the claim gives it: the k-th node is the hash of
\* e[2k] and e[2k+1] (0-based), the last node of an odd layer is paired
\* with itself
PairedLayer(e) ==
    [k \in 1 .. ((Len(e) + 1) \div 2) |->
        IF 2 * k <= Len(e) THEN hash32(<<e[2 * k - 1], e[2 * k]>>)
        ELSE hash32(<<e[Len(e)], e[Len(e)]>>)]

RECURSIVE PairedRoot(_)
PairedRoot(e) == IF Len(e) = 1 THEN e[1] ELSE PairedRoot(PairedLayer(e))

\* C22: layer_up maps a layer of n hashes to ceil(n/2) hashes, the k-th
\* being hash32(e[2k] ++ e[2k+1]) and, for odd n, the last being
\* hash32(e[n-1] ++ e[n-1]); root() is the result of repeating this until
\* one hash remains, for every n >= 1.
C22_MerkleLayerPairs ==
    output # None =>
        /\ unwrap(output).layer = PairedLayer(input)
        /\ Len(input) >= 1 => unwrap(output).root = Some(PairedRoot(input))

\* C22 for the layers of at most three hashes
C22_MerkleLayerPairsUpToThree ==
    (output # None /\ Len(input) <= 3) =>
        /\ unwrap(output).layer = PairedLayer(input)
        /\ Len(input) >= 1 => unwrap(output).root = Some(PairedRoot(input))

\* the last call of store_block
LastStore == output[Len(output)]

\* the bytes of the block are in the current block file at the offset of
\* the index record of its hash
StoredAtRecordedOffset(block) ==
    /\ has_block(blocks, Block_hash(block))
    /\ LET record == blocks[Block_hash(block)]
           pos == record.location.pos
       IN  /\ record.location.name = current_file.name
           /\ pos + Len(Block_bytes(block)) <= Len(current_file.file)
           /\ SubSeq(current_file.file, pos + 1, pos + Len(Block_bytes(block)))
                  = Block_bytes(block)

\* C23: store_block is atomic: when it returns Ok the block bytes have been
\* appended to the current block file at the offset recorded in the index
\* record and the index record for hash(block) exists (has_block returns
\* true); when either the file append or the index write fails it returns
\* an error instead of Ok.
C23_StoreBlockAtomic ==
    output # <<>> =>
        /\ LastStore.r = "Ok" => StoredAtRecordedOffset(LastStore.block)
        /\ LastStore.failed # {} => LastStore.r # "Ok"

\* C23 for the calls whose index write succeeds, no append having failed
\* half-way before
C23_StoreBlockWhenPutSucceeds ==
    (/\ output # <<>>
     /\ \A i \in 1 .. Len(output) : "put" \notin output[i].failed
     /\ Len(current_file.file) = current_file.pos) =>
        /\ LastStore.r = "Ok" => StoredAtRecordedOffset(LastStore.block)
        /\ LastStore.failed # {} => LastStore.r # "Ok"

\* the number of places of the current block file where the whole bytes of
\* the block stand
Appended(block) ==
    Cardinality({i \in 0 .. Len(current_file.file) :
        /\ i + Len(Block_bytes(block)) <= Len(current_file.file)
        /\ SubSeq(current_file.file, i + 1, i + Len(Block_bytes(block)))
               = Block_bytes(block)})

\* the last call has left the block file and the index as they were
StoreChangedNothing ==
    blocks' = blocks /\ current_file' = current_file

\* C24: store_block on a block whose hash already has an index record
\* returns AlreadyExists and changes neither the block file (no bytes
\* appended, write position unchanged) nor the index; consequently storing
\* the same block twice appends its bytes once.
C24_AlreadyExistsChangesNothing ==
    [][\A block \in Blocks :
          /\ (has_block(blocks, Block_hash(block))
              /\ Len(output') = Len(output) + 1
              /\ output'[Len(output')].block = block) =>
                 /\ output'[Len(output')].r = "AlreadyExists"
                 /\ StoreChangedNothing
          /\ Appended(block)' <= 1]_vars

\* C24 for an index that can be read: AlreadyExists and nothing changed
C24_AlreadyExistsWhenIndexReadable ==
    [][\A block \in Blocks :
          (/\ has_block(blocks, Block_hash(block))
           /\ Len(output') = Len(output) + 1
           /\ output'[Len(output')].block = block) =>
              /\ StoreChangedNothing
              /\ output'[Len(output')].r =
                     IF "get" \in output'[Len(output')].failed
                     THEN "DBOperation" ELSE "AlreadyExists"]_vars

\* C24, the blocks whose index write never failed are in the file once
C24_AppendedOnceWhenPutSucceeds ==
    \A block \in Blocks :
        (\A i \in 1 .. Len(output) :
            output[i].block = block => "put" \notin output[i].failed)
            => Appended(block) <= 1

(***************************************************************************)
(* C21: the pay-to-script-hash second pass of Script::exec.                *)
(***************************************************************************)
\* the instructions of a script as the interpreter steps over them: the
\* offset of the last one
RECURSIVE last_instruction(_, _)
last_instruction(script, at) ==
    LET opcode == script[at + 1]
        after == at + 1 + (IF opcode >= 1 /\ opcode <= 75 THEN opcode ELSE 0)
    IN  IF after >= Len(script) THEN at ELSE last_instruction(script, after)

\* the script ends with a whole data push
EndsWithPush(script) ==
    /\ script # <<>>
    /\ LET at == last_instruction(script, 0)
       IN  /\ script[at + 1] >= 1 /\ script[at + 1] <= 75
           /\ at + 1 + script[at + 1] = Len(script)
LastPush(script) == Drop(script, last_instruction(script, 0) + 1)
WithoutLastPush(script) == Take(script, last_instruction(script, 0))

\* scriptPubKey is exactly 0xA9 0x14 <20 bytes> 0x87
IsP2SHShape(pk) == Len(pk) = 23 /\ pk[1] = 169 /\ pk[2] = 20 /\ pk[23] = 135

FirstPass == exec_loop(Machine(input.sig \o input.pk))
SecondPassDue ==
    /\ ~FirstPass.invalid
    /\ input.block_timestamp >= 1333238400
    /\ IsP2SHShape(input.pk)

\* what C21 says of a call of exec whose first pass ran to its end
SecondPassAsSaid ==
    LET r == unwrap(output)
        code2 == WithoutLastPush(input.sig) \o LastPush(input.sig)
        second == exec_loop(Machine(code2))
    IN  /\ r.second <=> SecondPassDue
        /\ SecondPassDue =>
              /\ r.code = code2
              /\ r.stack = second.stack /\ r.invalid = second.invalid
              /\ r.panic = second.panic
        /\ ~SecondPassDue =>
              /\ r.stack = FirstPass.stack /\ r.invalid = FirstPass.invalid
              /\ ~r.panic

\* every instruction of the script after its first data push is a data push
RECURSIVE PushesLast(_, _, _)
PushesLast(script, at, pushed) ==
    \/ at >= Len(script)
    \/ LET opcode == script[at + 1]
           push == opcode >= 1 /\ opcode <= 75
       IN  /\ pushed => push
           /\ PushesLast(script, at + 1 + (IF push THEN opcode ELSE 0), push)

\* C21: exec runs the second pass iff the first pass did not mark the
\* transaction invalid, the block time is at least 1,333,238,400 and
\* scriptPubKey is 0xA9 0x14 <20 bytes> 0x87; the second pass runs scriptSig
\* without its last push followed by that push, on an empty stack, and the
\* result returned is that of the second pass (scriptSig ending with a
\* push, first pass run to its end).
C21_SecondPassOnLastPush ==
    (output # None /\ ~FirstPass.panic /\ EndsWithPush(input.sig)) => SecondPassAsSaid

\* C21, for a scriptSig in which no other opcode follows a data push
C21_SecondPassWhenPushesLast ==
    (output # None /\ ~FirstPass.panic /\ EndsWithPush(input.sig)
        /\ PushesLast(input.sig, 0, FALSE)) => SecondPassAsSaid

C21_SecondPassRan ==
    /\ output # None
    /\ unwrap(output).second /\ ~unwrap(output).panic /\ ~unwrap(output).invalid
    /\ Len(input.sig) > 2

(***************************************************************************)
(* C31: OP_EQUAL.                                                          *)
(***************************************************************************)
SameEntry(x1, x2) == x1.tag = x2.tag /\ x1.val = x2.val
EqualPushed(b) ==
    LET r == unwrap(output)
    IN  ~r.panic /\ r.stack = Append(input.rest, Bool(b))

\* C31: OP_EQUAL pops two entries and pushes Bool(true) iff they have the
\* same shape and the same value, arrays, booleans and numbers alike, and
\* Bool(false) otherwise.
C31_EqualPushesEquality ==
    output # None => EqualPushed(SameEntry(input.x1, input.x2))

\* C31, for two entries of which none is a number
C31_EqualOnArraysAndBools ==
    (output # None /\ input.x1.tag # "Number" /\ input.x2.tag # "Number")
        => EqualPushed(SameEntry(input.x1, input.x2))

(***************************************************************************)
(* C39: pay-to-script-hash needs the hash of the serialized script.        *)
(***************************************************************************)
\* the top of the stack is neither an empty array nor Bool(false)
TruthyTop(stack) ==
    /\ stack # <<>>
    /\ LET val == top(stack)
       IN  /\ ~(val.tag = "Array" /\ val.val = <<>>)
           /\ ~(val.tag = "Bool" /\ val.val = FALSE)

ReportsValid ==
    /\ output # None
    /\ ~unwrap(output).panic /\ ~unwrap(output).invalid
    /\ TruthyTop(unwrap(output).stack)

\* C39: for a pay-to-script-hash output at a block time of at least
\* 1,333,238,400, exec reports a result that is not invalid and has a
\* truthy top only if the first pass left a truthy top, that is only if the
\* HASH160 of the last push of scriptSig is the hash of scriptPubKey.
C39_P2SHValidOnlyIfHashMatches ==
    (ReportsValid /\ IsP2SHShape(input.pk) /\ input.block_timestamp >= 1333238400)
        => /\ TruthyTop(FirstPass.stack)
           /\ hash20(LastPush(input.sig)) = SubSeq(input.pk, 3, 22)

\* C39, before pay-to-script-hash applies: a valid result is the first
\* pass's
C39_ValidIsFirstPassOtherwise ==
    (ReportsValid /\ ~(IsP2SHShape(input.pk) /\ input.block_timestamp >= 1333238400))
        => TruthyTop(FirstPass.stack) /\ ~FirstPass.invalid

(***************************************************************************)
(* C33: the observed state of a peer entry.                                *)
(***************************************************************************)
\* what the Coordinator sent to peer p while handling the last event
SentTo(p) == SelectSeq(out', LAMBDA m : m.kind = "cmd" /\ m.to = p)

\* C33: the state of a peer entry advances only from CONNECTING to
\* UPDATING_PEERS, on Connected and with exactly one getaddr sent to the
\* peer, and from UPDATING_PEERS to UPDATING_BLOCKS, on Addrs (a replaced
\* peer's entry starts again at CONNECTING); a Connected event in another
\* state than CONNECTING, or an Addrs event in another state than
\* UPDATING_PEERS, sends nothing to the peer and leaves its state and
\* sync_node_id unchanged.
C33_StateAdvances ==
    [][\A p \in NodeIds :
        LET s == nodes[p + 1].state
            s1 == nodes'[p + 1].state
        IN  /\ s1 # s =>
                \/ /\ s = "CONNECTING" /\ s1 = "UPDATING_PEERS"
                   /\ ev'.t = "Connected"
                   /\ SentTo(p) = <<Cmd(nodes[p + 1], "getaddr", <<>>)>>
                \/ /\ s = "UPDATING_PEERS" /\ s1 = "UPDATING_BLOCKS"
                   /\ ev'.t = "Addrs"
                \/ /\ s1 = "CONNECTING"
                   /\ ev'.t \in {"ConnectionClosed", "Timeout"}
            /\ (s # "CONNECTING" /\ ev'.t = "Connected" /\ Connected(p)) =>
                   SentTo(p) = <<>> /\ s1 = s /\ sync_node_id' = sync_node_id
            /\ (s # "UPDATING_PEERS" /\ ev'.t = "Addrs"
                    /\ \E addrs \in AddrLists : Addrs(p, addrs)) =>
                   SentTo(p) = <<>> /\ s1 = s /\ sync_node_id' = sync_node_id
      ]_vars

\* a Connected event has been handled for a peer that was past CONNECTING
C33_Witness ==
    /\ ev.t = "Connected" /\ out = <<>> /\ cpc = "run"
    /\ \A p \in NodeIds : nodes[p + 1].state = "UPDATING_BLOCKS"
    /\ sync_node_id # None

(***************************************************************************)
(* C34: the Validator and an empty waiting queue.                          *)
(***************************************************************************)
\* C34: the Validator never fails on an empty waiting queue: when waiting
\* is empty (the first message is no Wait, a Wait carries no hashes, the
\* last awaited block has been handed on) it blocks for further messages.
C34_NoFailureOnEmptyWaiting == ~(vpc = "dead" /\ waiting = <<>>)

\* C34, the other way round: the Validator ends only at the head of its
\* loop and on an empty waiting queue, with every block that was awaited
\* and has arrived handed on
C34_FailsOnlyOnEmptyWaiting ==
    vpc = "dead" =>
        /\ waiting = <<>> /\ next = None
        /\ \A h \in SeqToSet(waitlog) :
               h \in DOMAIN available => \E i \in 1 .. Len(stored) : stored[i][1] = h

(***************************************************************************)
(* C35: a hash is in one place.                                            *)
(***************************************************************************)
\* the places of hash h: positions of download_queue (0) and of the
\* download_current of the peer entries
Places(h, queue, ns) ==
    {<<0, i>> : i \in {j \in 1 .. Len(queue) : queue[j] = h}}
        \cup UNION {{<<n, i>> : i \in {j \in 1 .. Len(ns[n].download_current) :
                                          ns[n].download_current[j] = h}} :
                    n \in 1 .. Len(ns)}
InOnePlace(queue, ns) == \A h \in Hashes : Cardinality(Places(h, queue, ns)) <= 1

\* C35: in every reachable state of the Coordinator no hash is twice in
\* download_queue, none is in the in-flight sets of two peers, and none is
\* at once in download_queue and in an in-flight set.
C35_HashInOnePlace == InOnePlace(download_queue, nodes)

\* C35, step by step: only the handling of a Timeout for a hash that no
\* peer is downloading puts a hash in a second place
C35_OnlyUnheldTimeoutDuplicates ==
    [][(/\ InOnePlace(download_queue, nodes)
        /\ ~InOnePlace(download_queue', nodes'))
          => /\ ev'.t = "Timeout"
             /\ \E h \in Hashes :
                   /\ \A n \in 1 .. Len(nodes) :
                          ~NodeHandle_is_downloading(nodes[n], h)
                   /\ download_queue' # <<>> /\ Cardinality(Places(h, download_queue', nodes')) = 2
                   /\ Timeout(h)]_vars

(***************************************************************************)
(* C38: a Timeout for a hash that no peer is downloading.                  *)
(***************************************************************************)
\* C38: when the Coordinator handles Timeout(h) and no peer's in-flight set
\* contains h, no peer is killed or replaced: h is put at the front of
\* download_queue and download work is re-broadcast (a ready download peer
\* is sent the front of the queue so extended), the entries of the peers
\* being left as they were.
C38_UnheldTimeoutRequeues ==
    [][\A h \in Hashes :
          (/\ ev'.t = "Timeout"
           /\ holder(nodes, h) = None
           /\ Timeout(h)) =>
              /\ cpc' = "run"
              /\ \A i \in 1 .. Len(out') : out'[i].kind = "cmd" /\ out'[i].t = "getdata"
              /\ \A p \in NodeIds :
                     /\ nodes'[p + 1].command_sender = nodes[p + 1].command_sender
                     /\ nodes'[p + 1].state = nodes[p + 1].state
                     /\ ~Sent(out', p, "getdata") =>
                            nodes'[p + 1].download_current = nodes[p + 1].download_current
              /\ getdata_concat(out') \o download_queue' = <<h>> \o download_queue
              /\ ReadyPeers # {} =>
                     /\ out' # <<>>
                     /\ out'[1].to \in ReadyPeers
                     /\ out'[1].arg = SubSeq(<<h>> \o download_queue, 1,
                                             Min(MAX_DOWNLOADING_BLOCKS,
                                                 1 + Len(download_queue)))]_vars

\* a Timeout for a hash nobody was downloading has been handled and the
\* hash has been sent to a download peer
C38_Witness ==
    /\ ev.t = "Timeout"
    /\ out # <<>>
    /\ \A i \in 1 .. Len(out) : out[i].t = "getdata"

HasTransition(t, state) ==
    \/ t = "verack" /\ state \in {"VER_SENT", "VER_RECEIVED"}
    \/ t = "version" /\ state \in {"VER_SENT", "VERACK_RECEIVED"}

\* session p receives handshake message t in a state with no transition
UnexpectedHandshake(p, t) ==
    /\ session[p].pc = "loop"
    /\ ~HasTransition(t, session[p].state)
    /\ SessionRecv(p, [kind |-> "message", t |-> t, arg |-> <<>>])

\* C40: a version or verack message that arrives in a handshake state with
\* no transition for it does not terminate the session: the connection
\* state is unchanged and the session goes on handling messages.
C40_UnexpectedHandshakeTolerated ==
    [][\A p \in NodeIds : \A t \in {"version", "verack"} :
          UnexpectedHandshake(p, t) =>
              /\ session'[p].pc = "loop"
              /\ session'[p].state = session[p].state]_vars

\* what happens instead: the session thread panics, in the state it was in,
\* an unexpected version having been answered with a verack first
C40_UnexpectedHandshakeEndsSession ==
    [][\A p \in NodeIds : \A t \in {"version", "verack"} :
          UnexpectedHandshake(p, t) =>
              /\ session'[p].pc = "dead"
              /\ session'[p].state = session[p].state
              /\ session'[p].responses = session[p].responses
              /\ session'[p].stream =
                     IF t = "version" THEN Append(session[p].stream, "verack")
                     ELSE session[p].stream]_vars

(***************************************************************************)
(* C32: sync progress.                                                     *)
(***************************************************************************)
\* C32: under fair scheduling, when headers have announced a hash and the
\* download peers answer every getdata they are sent, the hash is
\* eventually handed on by the Validator for storage.
C32_AnnouncedEventuallyHandedOn ==
    \A k \in HdrIds :
        (BlockHeader_hash(k) \in announced) ~> (BlockHeader_hash(k) \in Handed)

(***************************************************************************)
(* C36: header download and the replacement of the sync peer.              *)
(***************************************************************************)
\* the sync peer has just been killed and replaced, after a headers list of
\* MAX_HEADERS entries and before another list
SyncPeerReplacedAfterFullList ==
    /\ cpc = "run"
    /\ sync_node_id # None
    /\ ev = [src |-> "node", t |-> "ConnectionClosed"]
    /\ Cardinality(announced) = MAX_HEADERS
    /\ \E i \in 1 .. Len(out) : out[i] = Spawn(nodes[unwrap(sync_node_id) + 1])

\* a getheaders has just been sent to some peer
GetHeadersSent == \E q \in NodeIds : Sent(out, q, "getheaders")

C36_NoGetHeadersFromAddrsOnceElected ==
    [][(sync_node_id # None /\ ev'.t = "Addrs" /\ \E p \in NodeIds : Addrs(p, {}))
          => ~\E q \in NodeIds : Sent(out', q, "getheaders")]_vars

\* C36, what the code does: the election is never undone, by a replacement
\* or by anything else.
C36_SyncPeerNeverCleared ==
    [][sync_node_id # None => sync_node_id' = sync_node_id]_vars

=============================================================================
